---- MODULE Spec2Model ----
(***************************************************************************)
(* Order-book synchronisation of the indexer:                              *)
(*   - the wyvern-v2.3 event parser (syncCallback / fixCallback),          *)
(*   - the cancel / fill ledger it appends to,                             *)
(*   - the reconciliation and fill-accounting queues it feeds,             *)
(*   - the remove-buy-order-events cursor sweep.                           *)
(***************************************************************************)
EXTENDS Integers, Sequences, FiniteSets, TLC

(***************************************************************************)
(* Bounds of the model.                                                    *)
(***************************************************************************)
\* longest batch of logs handed to one syncCallback call
MaxBatch == 4
\* number of syncCallback calls in one behaviour
MaxSyncs == 1

(***************************************************************************)
(* Values.                                                                 *)
(***************************************************************************)
BlockHashes == {"B1", "B2"}

BlockNumber(b) == IF b = "B1" THEN 1 ELSE 2

TxHash(b) == IF b = "B1" THEN "tx1" ELSE "tx2"

\* String.prototype.toLowerCase on the hex strings the logs carry
ToLowerCase(s) ==
  CASE s = "H1" -> "h1"
    [] s = "H2" -> "h2"
    [] s = "M1" -> "m1"
    [] s = "M2" -> "m2"
    [] OTHER -> s

\* The persisted orders: hash -> row.  kind, maker and nonce never change.
OrderHashes == {"h1", "h2", "h3", "h4"}

OrderRow(h) ==
  CASE h = "h1" -> [kind |-> "wyvern-v2.3", maker |-> "m1", nonce |-> 0]
    [] h = "h2" -> [kind |-> "wyvern-v2.3", maker |-> "m1", nonce |-> 1]
    [] h = "h4" -> [kind |-> "seaport", maker |-> "m1", nonce |-> 0]
    [] OTHER    -> [kind |-> "wyvern-v2.3", maker |-> "m2", nonce |-> 0]

(***************************************************************************)
(* Raw logs.  fault says where decoding the log throws: in parseEvent, in  *)
(* abi.parseLog, or nowhere.  The logs of a block are numbered by their    *)
(* log index; a batch is a run of consecutive logs of one block.           *)
(***************************************************************************)
RawLog(b, i, topic, fault, hash, buyHash, sellHash, maker, newNonce) ==
  [maker |-> maker, topic |-> topic, fault |-> fault, hash |-> hash,
   buyHash |-> buyHash, sellHash |-> sellHash, newNonce |-> newNonce,
   blockHash |-> b, block |-> BlockNumber(b), txHash |-> TxHash(b),
   logIndex |-> i]

BlockLogs(b) ==
  << RawLog(b, 1, "OrderCancelled", "none",
            IF b = "B1" THEN "H1" ELSE "h2", "", "", "", 0),
     RawLog(b, 2, "OrderCancelled", "parseLog", "h3", "", "", "", 0),
     RawLog(b, 3, "OrdersMatched", "none", "", "h2", "H1", "M2", 0),
     RawLog(b, 4, "NonceIncremented", "none", "", "", "", "M1", BlockNumber(b)),
     RawLog(b, 5, "NonceIncremented", "parseEvent", "", "", "", "M1", 1),
     RawLog(b, 6, "Transfer", "none", "", "", "", "", 0) >>

\* a batch: the logs first .. first + n - 1 of a block
BatchOf(b, first, n) == SubSeq(BlockLogs(b), first, first + n - 1)

Batches(b) ==
  { BatchOf(b, w[1], w[2]) :
      w \in { v \in (1 .. Len(BlockLogs(b))) \X (1 .. MaxBatch) :
                v[1] + v[2] - 1 <= Len(BlockLogs(b)) } }

\* the batches the block source can hand over
AllBatches == UNION { Batches(b) : b \in BlockHashes }

(***************************************************************************)
(* The parse loop of syncCallback.                                         *)
(***************************************************************************)
\* parseEvent: the base parameters of a log
parseEvent(log) ==
  [blockHash |-> log.blockHash, block |-> log.block, txHash |-> log.txHash,
   logIndex |-> log.logIndex]

\* baseParams.txHash + "-" + baseParams.logIndex.toString()
Context(baseParams) == << baseParams.txHash, "-", baseParams.logIndex >>

EmptyParse ==
  [bulkCancelEvents |-> << >>, cancelEvents |-> << >>, fillEvents |-> << >>,
   hashInfos |-> << >>, fillInfos |-> << >>, logged |-> 0, thrown |-> FALSE]

\* does decoding this log throw inside the try block
Throws(log) ==
  \/ log.fault = "parseEvent"
  \/ /\ log.fault = "parseLog"
     /\ log.topic \in {"OrderCancelled", "OrdersMatched", "NonceIncremented"}

\* a catch block that lets the failure escape the loop
CatchLogRethrow(acc, log) == [acc EXCEPT !.logged = @ + 1, !.thrown = TRUE]

\* a log whose reconciliation item is pushed before the decoding that fails
CatchLogAfterPush(acc, log) ==
  [acc EXCEPT !.hashInfos = Append(@, [hash |-> ToLowerCase(log.hash),
                                       context |-> Context(parseEvent(log))]),
              !.logged = @ + 1]

\* the catch block: the failure is logged and the loop goes on
CatchLog(acc, log) == [acc EXCEPT !.logged = @ + 1]

\* only the buy side of a fill is reconciled
FillHashInfosBuyOnly(context, buyHash, sellHash) ==
  << [hash |-> buyHash, context |-> context] >>

\* the two reconciliation items of a fill
FillHashInfos(context, buyHash, sellHash) ==
  << [hash |-> buyHash, context |-> context],
     [hash |-> sellHash, context |-> context] >>

\* one iteration of the for loop over the logs
ParseOne(acc, log) ==
  LET baseParams == parseEvent(log)
      context == Context(baseParams)
  IN  IF Throws(log) THEN CatchLog(acc, log)
      ELSE CASE log.topic = "OrderCancelled" ->
                  LET orderHash == ToLowerCase(log.hash)
                  IN  [acc EXCEPT
                         !.cancelEvents =
                            Append(@, [baseParams |-> baseParams,
                                       orderHash |-> orderHash]),
                         !.hashInfos =
                            Append(@, [hash |-> orderHash, context |-> context])]
             [] log.topic = "OrdersMatched" ->
                  LET buyHash == ToLowerCase(log.buyHash)
                      sellHash == ToLowerCase(log.sellHash)
                      maker == ToLowerCase(log.maker)
                  IN  [acc EXCEPT
                         !.fillEvents =
                            Append(@, [maker |-> maker, buyHash |-> buyHash,
                                       sellHash |-> sellHash,
                                       baseParams |-> baseParams]),
                         !.hashInfos =
                            @ \o FillHashInfos(context, buyHash, sellHash),
                         !.fillInfos =
                            Append(@, [buyHash |-> buyHash, sellHash |-> sellHash,
                                       block |-> baseParams.block,
                                       context |-> context])]
             [] log.topic = "NonceIncremented" ->
                  LET maker == ToLowerCase(log.maker)
                  IN  [acc EXCEPT
                         !.bulkCancelEvents =
                            Append(@, [maker |-> maker, newNonce |-> log.newNonce,
                                       context |-> context])]
             [] OTHER -> acc

RECURSIVE ParseFrom(_, _, _)
ParseFrom(acc, logs, k) ==
  IF k > Len(logs) \/ acc.thrown THEN acc
  ELSE ParseFrom(ParseOne(acc, logs[k]), logs, k + 1)

\* the whole for loop
ParseLogs(logs) == ParseFrom(EmptyParse, logs, 1)

(***************************************************************************)
(* State.                                                                  *)
(***************************************************************************)
VARIABLES
  acceptOrders,   \* config.acceptOrders
  orders,         \* "orders" table: hash -> status
  cancelLedger,   \* cancel events table
  fillLedger,     \* fill events table
  hashQueue,      \* pending items of the orders-update-by-hash queue, oldest first
  fillQueue,      \* pending items of the fills-handle queue, oldest first
  sync,           \* the running syncCallback call: position, locals and what
                  \* it has sent to the queues
  syncs,          \* number of syncCallback calls made
  fix,            \* the running fixCallback call: position, block hash and
                  \* the order hashes of the cancel events it removed
  snapshot        \* ledger and order state when the last syncCallback call began

syncVars ==
  << acceptOrders, orders, cancelLedger, fillLedger, hashQueue, fillQueue,
     sync, syncs, fix, snapshot >>

Statuses == {"valid", "no-balance", "cancelled", "filled", "expired"}

IdleSync ==
  [logs |-> << >>, k |-> 1, pc |-> "idle", backfill |-> FALSE,
   parsed |-> EmptyParse, cause |-> "none", hashSent |-> << >>, fillSent |-> << >>,
   bulkSent |-> << >>]

IdleFix == [blockHash |-> "none", pc |-> "idle", removed |-> {}]

NoSnapshot ==
  [blockHash |-> "none", orders |-> [h \in OrderHashes |-> "valid"],
   phase |-> "none", cancels |-> {}, fills |-> {}]

SyncInit ==
  /\ acceptOrders \in BOOLEAN
  /\ orders = [h \in OrderHashes |-> "valid"]
  /\ cancelLedger = {}
  /\ fillLedger = {}
  /\ hashQueue = << >>
  /\ fillQueue = << >>
  /\ sync = IdleSync
  /\ syncs = 0
  /\ fix = IdleFix
  /\ snapshot = NoSnapshot

(***************************************************************************)
(* The ledger (events/common/cancels, events/common/fills).                *)
(***************************************************************************)
\* the elements of a sequence
Range(s) == { s[i] : i \in 1 .. Len(s) }

\* addCancelEvents: insert the events; an event already stored is kept once
addCancelEvents(ledger, events) == ledger \cup Range(events)

\* addFillEvents
addFillEvents(ledger, events) == ledger \cup Range(events)

\* removeCancelEvents: delete the cancel events of a block
removeCancelEvents(ledger, blockHash) ==
  { e \in ledger : e.baseParams.blockHash # blockHash }

\* a removal that deletes the fill events of every block
removeFillEventsOfAllBlocks(ledger, blockHash) == {}

\* removeFillEvents: delete the fill events of a block
removeFillEvents(ledger, blockHash) ==
  { e \in ledger : e.baseParams.blockHash # blockHash }

(***************************************************************************)
(* syncCallback.                                                           *)
(***************************************************************************)
\* the statement taken as ending in `returning "hash"`
ReturningClauseAccepted == TRUE

\* the statement of lines 134-141 ends in `return "hash"`, not `returning
\* "hash"`: the database rejects it with a syntax error and changes no row
ReturningClauseParses == FALSE

\* the rows the bulk-cancel update statement selects
BulkCancelSelected(ords, maker, nonce) ==
  { h \in OrderHashes :
      /\ OrderRow(h).kind = "wyvern-v2.3"
      /\ OrderRow(h).maker = maker
      /\ OrderRow(h).nonce < nonce
      /\ ords[h] \in {"valid", "no-balance"} }

\* the work items of a set of hashes, in hash order
RECURSIVE HashItems(_, _)
HashItems(context, S) ==
  IF S = {} THEN << >>
  ELSE LET h == CHOOSE x \in S : \A y \in S : x = y \/ OrderRow(x).nonce <= OrderRow(y).nonce
       IN  << [hash |-> h, context |-> context] >> \o HashItems(context, S \ {h})

\* the call with its synchronous parse loop, up to the first await; the block
\* source hands over one batch or one orphaned block at a time
SyncStart(logs, backfill) ==
  /\ sync.pc = "idle"
  /\ fix.pc = "idle"
  /\ syncs < MaxSyncs
  /\ syncs' = syncs + 1
  /\ LET parsed == ParseLogs(logs)
     IN  sync' = [logs |-> logs, k |-> 1,
                  pc |-> IF parsed.thrown THEN "failed" ELSE "addCancelEvents",
                  backfill |-> backfill, parsed |-> parsed,
                  cause |-> IF parsed.thrown THEN "parse" ELSE "none",
                  hashSent |-> << >>, fillSent |-> << >>, bulkSent |-> << >>]
  /\ snapshot' = [blockHash |-> logs[1].blockHash, orders |-> orders,
                  phase |-> "syncing", cancels |-> cancelLedger,
                  fills |-> fillLedger]
  /\ UNCHANGED << acceptOrders, orders, cancelLedger, fillLedger, hashQueue,
                  fillQueue, fix >>

\* cancel events appended on live batches only
SyncAddCancelEventsLiveOnly ==
  /\ sync.pc = "addCancelEvents"
  /\ cancelLedger' = IF sync.backfill THEN cancelLedger
                     ELSE addCancelEvents(cancelLedger, sync.parsed.cancelEvents)
  /\ sync' = [sync EXCEPT !.pc = "addFillEvents"]
  /\ UNCHANGED << acceptOrders, orders, fillLedger, hashQueue, fillQueue,
                  syncs, fix, snapshot >>

\* await addCancelEvents("wyvern-v2", cancelEvents)
SyncAddCancelEvents ==
  /\ sync.pc = "addCancelEvents"
  /\ cancelLedger' = addCancelEvents(cancelLedger, sync.parsed.cancelEvents)
  /\ sync' = [sync EXCEPT !.pc = "addFillEvents"]
  /\ UNCHANGED << acceptOrders, orders, fillLedger, hashQueue, fillQueue,
                  syncs, fix, snapshot >>

\* a gate that forgets the backfill flag
DownstreamIgnoresBackfill(backfill, accept) == accept

\* the gate of lines 126-127
Downstream(backfill, accept) == ~backfill /\ accept

\* await addFillEvents("wyvern-v2", fillEvents)
SyncAddFillEvents ==
  /\ sync.pc = "addFillEvents"
  /\ fillLedger' = addFillEvents(fillLedger, sync.parsed.fillEvents)
  /\ sync' = [sync EXCEPT
                !.pc = IF Downstream(sync.backfill, acceptOrders)
                       THEN "enqueueHashes" ELSE "done"]
  /\ UNCHANGED << acceptOrders, orders, cancelLedger, hashQueue, fillQueue,
                  syncs, fix, snapshot >>

\* a ledger insert rejects and the call goes on to its enqueues
SyncAppendFailsGoesOn ==
  /\ sync.pc \in {"addCancelEvents", "addFillEvents"}
  /\ sync' = [sync EXCEPT !.pc = "enqueueHashes", !.cause = "append"]
  /\ UNCHANGED << acceptOrders, orders, cancelLedger, fillLedger, hashQueue,
                  fillQueue, syncs, fix, snapshot >>

\* a ledger insert rejects: the call throws
SyncAppendFails ==
  /\ sync.pc \in {"addCancelEvents", "addFillEvents"}
  /\ sync' = [sync EXCEPT !.pc = "failed", !.cause = "append"]
  /\ UNCHANGED << acceptOrders, orders, cancelLedger, fillLedger, hashQueue,
                  fillQueue, syncs, fix, snapshot >>

\* await addToOrdersUpdateByHashQueue(hashInfos)
SyncEnqueueHashes ==
  /\ sync.pc = "enqueueHashes"
  /\ hashQueue' = hashQueue \o sync.parsed.hashInfos
  /\ sync' = [sync EXCEPT !.pc = "enqueueFills",
                           !.hashSent = sync.parsed.hashInfos]
  /\ UNCHANGED << acceptOrders, orders, cancelLedger, fillLedger, fillQueue,
                  syncs, fix, snapshot >>

\* await addToFillsHandleQueue(fillInfos)
SyncEnqueueFills ==
  /\ sync.pc = "enqueueFills"
  /\ fillQueue' = fillQueue \o sync.parsed.fillInfos
  /\ sync' = [sync EXCEPT !.pc = "bulkCancel", !.k = 1,
                           !.fillSent = sync.parsed.fillInfos]
  /\ UNCHANGED << acceptOrders, orders, cancelLedger, fillLedger, hashQueue,
                  syncs, fix, snapshot >>

\* an iteration whose statement is accepted and selects on the maker alone
SyncBulkCancelByMakerOnly ==
  /\ sync.pc = "bulkCancel"
  /\ IF sync.k > Len(sync.parsed.bulkCancelEvents)
     THEN /\ sync' = [sync EXCEPT !.pc = "done"]
          /\ UNCHANGED << orders, hashQueue >>
     ELSE LET ev == sync.parsed.bulkCancelEvents[sync.k]
              hashes == { h \in OrderHashes : OrderRow(h).maker = ev.maker }
          IN  /\ orders' = [h \in OrderHashes |->
                              IF h \in hashes THEN "cancelled" ELSE orders[h]]
              /\ hashQueue' = hashQueue \o HashItems(ev.context, hashes)
              /\ sync' = [sync EXCEPT
                            !.k = @ + 1,
                            !.bulkSent = @ \o HashItems(ev.context, hashes)]
  /\ UNCHANGED << acceptOrders, cancelLedger, fillLedger, fillQueue, syncs, fix,
                  snapshot >>

\* one iteration of the loop over bulkCancelEvents: the update statement and
\* the enqueue of the hashes it returned
SyncBulkCancel ==
  /\ sync.pc = "bulkCancel"
  /\ IF sync.k > Len(sync.parsed.bulkCancelEvents)
     THEN /\ sync' = [sync EXCEPT !.pc = "done"]
          /\ UNCHANGED << orders, hashQueue >>
     ELSE LET ev == sync.parsed.bulkCancelEvents[sync.k]
              hashes == BulkCancelSelected(orders, ev.maker, ev.newNonce)
          IN  IF ReturningClauseParses
              THEN /\ orders' = [h \in OrderHashes |->
                                   IF h \in hashes THEN "cancelled" ELSE orders[h]]
                   /\ hashQueue' = hashQueue \o HashItems(ev.context, hashes)
                   /\ sync' = [sync EXCEPT
                                 !.k = @ + 1,
                                 !.bulkSent = @ \o HashItems(ev.context, hashes)]
              ELSE /\ sync' = [sync EXCEPT !.pc = "failed", !.cause = "statement"]
                   /\ UNCHANGED << orders, hashQueue >>
  /\ UNCHANGED << acceptOrders, cancelLedger, fillLedger, fillQueue, syncs, fix,
                  snapshot >>

\* the promise of syncCallback settles
SyncReturn ==
  /\ sync.pc \in {"done", "failed"}
  /\ sync' = IdleSync
  /\ snapshot' = IF snapshot.phase = "syncing" /\ sync.pc = "done"
                 THEN [snapshot EXCEPT !.phase = "synced"]
                 ELSE [snapshot EXCEPT !.phase = "none"]
  /\ UNCHANGED << acceptOrders, orders, cancelLedger, fillLedger, hashQueue,
                  fillQueue, syncs, fix >>

(***************************************************************************)
(* fixCallback.                                                            *)
(***************************************************************************)
FixStart(blockHash) ==
  /\ fix.pc = "idle"
  /\ sync.pc = "idle"
  /\ fix' = [blockHash |-> blockHash, pc |-> "removeCancelEvents",
             removed |-> {}]
  /\ snapshot' = IF snapshot.phase = "synced" /\ snapshot.blockHash = blockHash
                 THEN [snapshot EXCEPT !.phase = "fixing"]
                 ELSE [snapshot EXCEPT !.phase = "none"]
  /\ UNCHANGED << acceptOrders, orders, cancelLedger, fillLedger, hashQueue,
                  fillQueue, sync, syncs >>

\* await removeCancelEvents(blockHash)
FixRemoveCancelEvents ==
  /\ fix.pc = "removeCancelEvents"
  /\ cancelLedger' = removeCancelEvents(cancelLedger, fix.blockHash)
  /\ fix' = [fix EXCEPT
                !.pc = "removeFillEvents",
                !.removed = { e.orderHash : e \in cancelLedger \ cancelLedger' }]
  /\ UNCHANGED << acceptOrders, orders, fillLedger, hashQueue, fillQueue, sync,
                  syncs, snapshot >>

\* await removeFillEvents(blockHash), then the promise settles
FixRemoveFillEvents ==
  /\ fix.pc = "removeFillEvents"
  /\ fillLedger' = removeFillEvents(fillLedger, fix.blockHash)
  /\ fix' = IdleFix
  /\ snapshot' = IF snapshot.phase = "fixing"
                 THEN [snapshot EXCEPT !.phase = "fixed"]
                 ELSE snapshot
  /\ UNCHANGED << acceptOrders, orders, cancelLedger, hashQueue, fillQueue, sync,
                  syncs >>

(***************************************************************************)
(* The consumers of the two queues (jobs/orders-update, jobs/fills-handle) *)
(* and the read helpers they use.                                          *)
(***************************************************************************)
\* isOrderCancelled: is there a cancel event of the order
isOrderCancelled(orderId) == \E e \in cancelLedger : e.orderHash = orderId

\* getQuantityFilled: the sum of the fill amounts of the order; every
\* fill of the model trades one unit
getQuantityFilled(orderId) ==
  Cardinality({ e \in fillLedger : e.buyHash = orderId \/ e.sellHash = orderId })

\* the status of an order that is within its validity window and whose maker
\* holds the balance: cancelled, then filled, then valid
Reconcile(orderId) ==
  IF isOrderCancelled(orderId) THEN "cancelled"
  ELSE IF getQuantityFilled(orderId) >= 1 THEN "filled"
  ELSE "valid"

\* the orders-update-by-hash worker takes the oldest item and reconciles it
OrdersUpdateWorker ==
  /\ hashQueue # << >>
  /\ LET item == Head(hashQueue)
     IN  orders' = [h \in OrderHashes |->
                      IF h = item.hash THEN Reconcile(h) ELSE orders[h]]
  /\ hashQueue' = Tail(hashQueue)
  /\ UNCHANGED << acceptOrders, cancelLedger, fillLedger, fillQueue, sync, syncs,
                  fix, snapshot >>

\* the fills-handle worker takes the oldest item and accounts the fill
FillsHandleWorker ==
  /\ fillQueue # << >>
  /\ LET item == Head(fillQueue)
     IN  orders' = [h \in OrderHashes |->
                      IF /\ h \in {item.buyHash, item.sellHash}
                         /\ orders[h] \in {"valid", "no-balance"}
                         /\ getQuantityFilled(h) >= 1
                      THEN "filled" ELSE orders[h]]
  /\ fillQueue' = Tail(fillQueue)
  /\ UNCHANGED << acceptOrders, cancelLedger, fillLedger, hashQueue, sync, syncs,
                  fix, snapshot >>

(***************************************************************************)
(* getMinNonce (orderbook/orders/common/helpers) over the                  *)
(* bulk_cancel_events table.                                               *)
(***************************************************************************)
\* largest min_nonce a stored bulk-cancel event carries
MaxNonce == 2

\* largest number of rows of bulk_cancel_events
MaxEvents == 3

ChainIds == {1, 4, 5}

OrderKinds == {"wyvern-v2.3", "seaport"}

NonceMakers == {"m1", "m2"}

BulkCancelRows ==
  { [maker |-> mk, min_nonce |-> n, order_kind |-> kd] :
      mk \in NonceMakers, n \in 0 .. MaxNonce, kd \in OrderKinds }

BulkCancelTables ==
  { T \in SUBSET BulkCancelRows : Cardinality(T) <= MaxEvents }

VARIABLES
  chainId,             \* config.chainId
  bulk_cancel_events,  \* bulk_cancel_events table
  nonceCall            \* the last getMinNonce call: its arguments and result

nonceVars == << chainId, bulk_cancel_events, nonceCall >>

NoCall == [maker |-> "", nonce |-> 0, orderKind |-> ""]

\* the where clause matching on the order kind alone
BulkCancelMatchesKindOnly(r, orderKind, maker) ==
  r.order_kind = orderKind

\* where order_kind = $/orderKind/ and maker = $/maker/
BulkCancelMatches(r, orderKind, maker) ==
  /\ r.order_kind = orderKind
  /\ r.maker = maker

\* order by min_nonce desc
RECURSIVE OrderByMinNonceDesc(_)
OrderByMinNonceDesc(S) ==
  IF S = {} THEN << >>
  ELSE LET r == CHOOSE x \in S : \A y \in S : x.min_nonce >= y.min_nonce
       IN  << r >> \o OrderByMinNonceDesc(S \ {r})

\* limit 1 of a scalar subquery: no row is null, here the empty sequence
ScalarLimit1(rows) ==
  IF rows = << >> THEN << >> ELSE << rows[1] >>

\* coalesce(value, fallback)
Coalesce(value, fallback) ==
  IF value = << >> THEN fallback ELSE value[1]

\* the adjusted branch taken on chain 4 whatever the order kind
IsRinkebyWyvernAnyKind(chain, orderKind) ==
  chain = 4

\* config.chainId === 4 && orderKind === "wyvern-v2.3"
IsRinkebyWyvern(chain, orderKind) ==
  chain = 4 /\ orderKind = "wyvern-v2.3"

getMinNonce(chain, table, orderKind, maker) ==
  LET rows == OrderByMinNonceDesc(
                { r \in table : BulkCancelMatches(r, orderKind, maker) })
      top == ScalarLimit1(rows)
  IN  IF IsRinkebyWyvern(chain, orderKind)
      THEN Coalesce(IF top = << >> THEN << >> ELSE << top[1].min_nonce + 1 >>, 0)
      ELSE Coalesce(IF top = << >> THEN << >> ELSE << top[1].min_nonce >>, 0)

NonceIdle ==
  /\ chainId = 1
  /\ bulk_cancel_events = {}
  /\ nonceCall = NoCall

NonceInit ==
  /\ chainId \in ChainIds
  /\ bulk_cancel_events \in BulkCancelTables
  /\ nonceCall = NoCall

\* a caller awaits getMinNonce(orderKind, maker)
GetMinNonce(orderKind, maker) ==
  /\ nonceCall' = [maker |-> maker,
                   nonce |-> getMinNonce(chainId, bulk_cancel_events, orderKind, maker),
                   orderKind |-> orderKind]
  /\ UNCHANGED << chainId, bulk_cancel_events >>

(***************************************************************************)
(* getNftApproval (orderbook/orders/common/helpers) over the               *)
(* nft_approval_events table.  An approval event is one log: its place in  *)
(* the chain is its block and its log index in the block.                  *)
(***************************************************************************)
ApprovalBlocks == {1, 2}

ApprovalLogIndexes == {0, 1}

\* the (contract, owner, operator) triples of the model: the first, and three
\* that differ from it in one component each
ApprovalTriples ==
  { << "a1", "o1", "p1" >>, << "a2", "o1", "p1" >>,
    << "a1", "o2", "p1" >>, << "a1", "o1", "p2" >> }

\* the logs that may be in the table: at most one per place in the chain
ApprovalPlaces == ApprovalBlocks \X ApprovalLogIndexes

ApprovalRow(place, triple, approved) ==
  [block |-> place[1], logIndex |-> place[2], approved |-> approved,
   address |-> triple[1], owner |-> triple[2], operator |-> triple[3]]

ApprovalTables ==
  UNION { { { ApprovalRow(p, f[p][1], f[p][2]) : p \in S } :
            f \in [S -> ApprovalTriples \X BOOLEAN] } :
          S \in SUBSET ApprovalPlaces }

VARIABLES
  nft_approval_events,  \* nft_approval_events table
  approvalCall          \* the last getNftApproval call: arguments and result

approvalVars == << nft_approval_events, approvalCall >>

NoApprovalCall == [triple |-> << >>, result |-> FALSE]

\* the where clause of lines 67-69
ApprovalMatches(r, contract, owner, operator) ==
  /\ r.address = contract
  /\ r.owner = owner
  /\ r.operator = operator

\* ORDER BY block DESC LIMIT 1: a row of the newest block; which one, when the
\* block holds several, the statement does not say
NewestBlockRows(rows) ==
  { r \in rows : \A q \in rows : q.block <= r.block }

\* the values getNftApproval can return
getNftApproval(table, contract, owner, operator) ==
  LET rows == { r \in table : ApprovalMatches(r, contract, owner, operator) }
  IN  IF rows = {} THEN {FALSE}
      ELSE { approvalResult.approved : approvalResult \in NewestBlockRows(rows) }

ApprovalIdle ==
  /\ nft_approval_events = {}
  /\ approvalCall = NoApprovalCall

ApprovalInit ==
  /\ nft_approval_events \in ApprovalTables
  /\ approvalCall = NoApprovalCall

\* a caller awaits getNftApproval(contract, owner, operator)
GetNftApproval(triple) ==
  /\ \E result \in getNftApproval(nft_approval_events, triple[1], triple[2],
                                  triple[3]) :
       approvalCall' = [triple |-> triple, result |-> result]
  /\ UNCHANGED nft_approval_events

(***************************************************************************)
(* Job queues.  A queue is its jobs by id, the ids that are delayed, the   *)
(* waiting ids oldest first, the active ids, and the failed and completed  *)
(* ids it keeps, oldest first.  The operators below are what bullmq's      *)
(* Queue, QueueScheduler and Worker do with the options the job modules    *)
(* construct them with.                                                    *)
(***************************************************************************)
EmptyQueue ==
  [failed |-> << >>, jobs |-> << >>, delayed |-> {}, wait |-> << >>,
   active |-> {}, completed |-> << >>]

\* no backoff option
NoBackoff == [type |-> "none", delay |-> 0]

\* the delay before the retry that follows failed attempt number attemptsMade
BackoffDelay(backoff, attemptsMade) ==
  CASE backoff.type = "fixed" -> backoff.delay
    [] backoff.type = "exponential" -> (2 ^ (attemptsMade - 1)) * backoff.delay
    [] OTHER -> 0

\* the oldest n elements of a sequence
KeepOldest(seq, n) ==
  IF Len(seq) > n THEN SubSeq(seq, 1, n) ELSE seq

\* the newest n elements of a sequence
KeepNewest(seq, n) ==
  IF Len(seq) > n THEN SubSeq(seq, Len(seq) - n + 1, Len(seq)) ELSE seq

\* the jobs of a queue without those of ids
WithoutJobs(jobs, ids) == [j \in DOMAIN jobs \ ids |-> jobs[j]]

\* an add that replaces the pending job of the same id
QueueAddOverwrite(q, jobId, data, delay) ==
  LET rest == [q EXCEPT !.jobs = WithoutJobs(@, {jobId}),
                        !.delayed = @ \ {jobId},
                        !.wait = SelectSeq(@, LAMBDA j : j # jobId)]
  IN  [rest EXCEPT
         !.jobs = (jobId :> [delay |-> delay, attemptsMade |-> 0, data |-> data,
                             retryDelays |-> << >>]) @@ @,
         !.delayed = IF delay > 0 THEN @ \cup {jobId} ELSE @,
         !.wait = IF delay > 0 THEN @ ELSE Append(@, jobId)]

\* queue.add(name, data, { jobId, delay }): nothing happens when a job of that
\* id exists; otherwise the job is delayed, or waits when it has no delay
QueueAdd(q, jobId, data, delay) ==
  IF jobId \in DOMAIN q.jobs THEN q
  ELSE [q EXCEPT
          !.jobs = (jobId :> [delay |-> delay, attemptsMade |-> 0, data |-> data,
                              retryDelays |-> << >>]) @@ @,
          !.delayed = IF delay > 0 THEN @ \cup {jobId} ELSE @,
          !.wait = IF delay > 0 THEN @ ELSE Append(@, jobId)]

\* the scheduler moves a delayed job whose delay has passed to the waiting list
QueuePromote(q, jobId) ==
  [q EXCEPT !.delayed = @ \ {jobId}, !.wait = Append(@, jobId)]

\* the worker takes a job whenever one waits
QueueCanTakeAlways(q, options) ==
  q.wait # << >>

\* the worker may take a job while it runs fewer than concurrency handlers
QueueCanTake(q, options) ==
  /\ q.wait # << >>
  /\ Cardinality(q.active) < options.concurrency

\* the worker takes the oldest waiting job
QueueTake(q) ==
  [q EXCEPT !.wait = Tail(@), !.active = @ \cup {Head(q.wait)}]

\* the scheduler finds the lock of an active job lapsed (its worker stopped
\* renewing it) and moves the job back to the waiting list
QueueStalled(q, jobId) ==
  [q EXCEPT !.wait = Append(@, jobId), !.active = @ \ {jobId}]

\* the handler returned: the job is completed and kept as removeOnComplete
\* says; a job that is no longer active (it stalled) is left where it is
QueueCompleted(q, options, jobId) ==
  LET completed == Append(q.completed, jobId)
      kept == KeepNewest(completed, options.removeOnComplete)
  IN  IF jobId \notin q.active THEN q ELSE
      [q EXCEPT
         !.jobs = WithoutJobs([@ EXCEPT ![jobId].attemptsMade = @ + 1],
                              Range(completed) \ Range(kept)),
         !.active = @ \ {jobId},
         !.completed = kept]

\* a job is retried while attemptsMade <= attempts
MayRetryOnceMore(attemptsMade, options) == attemptsMade <= options.attempts

\* a job is retried while attemptsMade < attempts
MayRetry(attemptsMade, options) == attemptsMade < options.attempts

\* the handler threw: the job is retried after its backoff delay, or moved to
\* the failed set and kept as removeOnFail says; a job that is no longer
\* active (it stalled) is left where it is
QueueFailed(q, options, jobId) ==
  LET attemptsMade == q.jobs[jobId].attemptsMade + 1
      delay == BackoffDelay(options.backoff, attemptsMade)
      failed == Append(q.failed, jobId)
      kept == KeepNewest(failed, options.removeOnFail)
  IN  IF jobId \notin q.active THEN q
      ELSE IF MayRetry(attemptsMade, options)
      THEN [q EXCEPT
              !.jobs = [@ EXCEPT ![jobId].attemptsMade = attemptsMade,
                                 ![jobId].retryDelays = Append(@, delay)],
              !.delayed = IF delay > 0 THEN @ \cup {jobId} ELSE @,
              !.wait = IF delay > 0 THEN @ ELSE Append(@, jobId),
              !.active = @ \ {jobId}]
      ELSE [q EXCEPT
              !.jobs = WithoutJobs([@ EXCEPT ![jobId].attemptsMade = attemptsMade],
                                   Range(failed) \ Range(kept)),
              !.active = @ \ {jobId},
              !.failed = kept]

(***************************************************************************)
(* The remove-buy-order-events sweep.                                      *)
(***************************************************************************)
\* largest order id of the "orders" table
MaxRows == 3
\* latest creation time of an order, in clock ticks
MaxTick == 1
\* clock ticks in one second
TicksPerSecond == 2

\* const limit = 1
limit == 1

\* number of process instances that run the background work
MaxInstances == 2

Instances == 1 .. MaxInstances

\* defaultJobOptions and the worker's concurrency
SweepOptions ==
  [backoff |-> NoBackoff, concurrency |-> 1, removeOnComplete |-> 10000,
   attempts |-> 10, removeOnFail |-> 10000]

VARIABLES
  orderRows,      \* "orders" table as the sweep reads it: rows of id, created_at, side
  orderEvents,    \* order_events table: the order ids that have rows in it
  sweepQueue,     \* remove-buy-order-events-queue
  sweepAdded,     \* number of jobs added to the queue so far: the last job id
  job,            \* per instance, the handler invocation of its worker:
                  \* position, job id, cursor, page read
  boot,           \* per instance, how far its start has got
  lockHeld,       \* remove-buy-order-events-queue-lock is held
  invocations,    \* number of handler invocations so far
  processed       \* the rows whose events were deleted, per handling item

sweepVars ==
  << orderRows, orderEvents, sweepQueue, sweepAdded, job, boot, lockHeld,
     invocations, processed >>

OrderIds == 1 .. MaxRows

Ticks == 0 .. MaxTick

\* extract(epoch from created_at): seconds with a fractional part
ExtractEpoch(tick) ==
  [seconds |-> tick \div TicksPerSecond, fraction |-> tick % TicksPerSecond]

\* to_timestamp(createdAt)
ToTimestamp(epoch) == epoch.seconds * TicksPerSecond + epoch.fraction

\* the row comparison (created_at, id) < (to_timestamp(createdAt), id), "<=" instead
RowBeforeOrAt(row, cursor) ==
  \/ row.created_at < ToTimestamp(cursor.createdAt)
  \/ /\ row.created_at = ToTimestamp(cursor.createdAt)
     /\ row.id <= cursor.id

\* the row comparison (created_at, id) < (to_timestamp($/createdAt/), $/id/)
RowBefore(row, cursor) ==
  \/ row.created_at < ToTimestamp(cursor.createdAt)
  \/ /\ row.created_at = ToTimestamp(cursor.createdAt)
     /\ row.id < cursor.id

\* the continuation filter without the condition on side
MatchingAnySide(rows, cursor) ==
  { r \in rows : cursor # << >> => RowBefore(r, cursor[1]) }

\* WHERE side = 'buy' and the continuation filter; cursor is << >> when absent
Matching(rows, cursor) ==
  { r \in rows : /\ r.side = "buy"
                 /\ cursor # << >> => RowBefore(r, cursor[1]) }

\* ORDER BY created_at DESC, id DESC LIMIT n, with the selected columns
RECURSIVE Page(_, _)
Page(rows, n) ==
  IF n = 0 \/ rows = {} THEN << >>
  ELSE LET top == CHOOSE r \in rows :
                    \A q \in rows :
                      \/ q.created_at < r.created_at
                      \/ q.created_at = r.created_at /\ q.id <= r.id
       IN  << [created_at |-> ExtractEpoch(top.created_at), id |-> top.id] >>
             \o Page(rows \ {top}, n - 1)

\* a follow-up is enqueued only for a page longer than limit
PageFullNever(buyOrders) == Len(buyOrders) > limit

\* _.size(buyOrders) == limit
PageFull(buyOrders) == Len(buyOrders) = limit

\* nextCursor, from _.last(buyOrders)
NextCursor(buyOrders) ==
  LET lastBuyOrder == buyOrders[Len(buyOrders)]
  IN  [createdAt |-> lastBuyOrder.created_at, id |-> lastBuyOrder.id]

\* orderIds: buyOrders.map((o) => o.id).join(","), bound as one text value: the
\* IN list has a single element, which is an order id only for a page of one row
OrderIdsIn(buyOrders) ==
  IF Len(buyOrders) = 1 THEN { buyOrders[1].id } ELSE {}

IdleJob ==
  [pc |-> "idle", jobId |-> 0, cursor |-> << >>, buyOrders |-> << >>,
   parent |-> << >>]

\* the tables: each id is absent or has one row
Tables ==
  { { [created_at |-> f[i][1], id |-> i, side |-> f[i][2]] :
        i \in { j \in OrderIds : f[j] # << >> } } :
      f \in [OrderIds -> { << >> } \cup (Ticks \X {"buy", "sell"})] }

SweepInit ==
  /\ orderRows \in Tables
  /\ orderEvents = { r.id : r \in orderRows }
  /\ sweepQueue = EmptyQueue
  /\ sweepAdded = 0
  /\ job = [i \in Instances |-> IdleJob]
  /\ boot = [i \in Instances |-> "down"]
  /\ lockHeld = FALSE
  /\ invocations = 0
  /\ processed = << >>

\* addToQueue(cursor): queue.add(randomUUID(), { cursor }), a job of a new id
\* without delay; parent is the cursor of the item that enqueues
addToQueue(q, added, cursor, parent) ==
  QueueAdd(q, added + 1, [cursor |-> cursor, parent |-> parent], 0)

\* an instance starts: the module is loaded with config.doBackgroundWork, the
\* worker is constructed and redlock.acquire is called
Start(i) ==
  /\ boot[i] = "down"
  /\ boot' = [boot EXCEPT ![i] = "acquiring"]
  /\ UNCHANGED << orderRows, orderEvents, sweepQueue, sweepAdded, job, lockHeld,
                  invocations, processed >>

\* redlock.acquire resolves: the lock was free and is now held for its TTL
Acquire(i) ==
  /\ boot[i] = "acquiring"
  /\ ~lockHeld
  /\ lockHeld' = TRUE
  /\ boot' = [boot EXCEPT ![i] = "acquired"]
  /\ UNCHANGED << orderRows, orderEvents, sweepQueue, sweepAdded, job,
                  invocations, processed >>

\* redlock.acquire rejects, the lock being held: .catch skips
AcquireFails(i) ==
  /\ boot[i] = "acquiring"
  /\ lockHeld
  /\ boot' = [boot EXCEPT ![i] = "skipped"]
  /\ UNCHANGED << orderRows, orderEvents, sweepQueue, sweepAdded, job, lockHeld,
                  invocations, processed >>

\* .then(async () => { await addToQueue(); }): the first item has no cursor
Bootstrap(i) ==
  /\ boot[i] = "acquired"
  /\ sweepQueue' = addToQueue(sweepQueue, sweepAdded, << >>, << >>)
  /\ sweepAdded' = sweepAdded + 1
  /\ boot' = [boot EXCEPT ![i] = "bootstrapped"]
  /\ UNCHANGED << orderRows, orderEvents, job, lockHeld, invocations, processed >>

\* the addToQueue() of the bootstrap rejects: .catch skips
BootstrapFails(i) ==
  /\ boot[i] = "acquired"
  /\ boot' = [boot EXCEPT ![i] = "skipped"]
  /\ UNCHANGED << orderRows, orderEvents, sweepQueue, sweepAdded, job, lockHeld,
                  invocations, processed >>

\* an instance whose worker is idle stops; it may start again
Stop(i) ==
  /\ boot[i] # "down"
  /\ job[i].pc = "idle"
  /\ boot' = [boot EXCEPT ![i] = "down"]
  /\ UNCHANGED << orderRows, orderEvents, sweepQueue, sweepAdded, job, lockHeld,
                  invocations, processed >>

\* the worker takes an item only on the instance that ran the bootstrap
TakeJobBootstrappedOnly(i) ==
  /\ boot[i] = "bootstrapped"
  /\ job[i].pc = "idle"
  /\ sweepQueue.wait # << >>
  /\ LET jobId == Head(sweepQueue.wait)
     IN  job' = [job EXCEPT ![i] =
                   [pc |-> "select", jobId |-> jobId,
                    cursor |-> sweepQueue.jobs[jobId].data.cursor,
                    buyOrders |-> << >>,
                    parent |-> sweepQueue.jobs[jobId].data.parent]]
  /\ sweepQueue' = QueueTake(sweepQueue)
  /\ invocations' = invocations + 1
  /\ UNCHANGED << orderRows, orderEvents, sweepAdded, boot, lockHeld, processed >>

\* the worker of an instance, concurrency 1, takes the oldest waiting item
TakeJob(i) ==
  /\ boot[i] # "down"
  /\ job[i].pc = "idle"
  /\ sweepQueue.wait # << >>
  /\ LET jobId == Head(sweepQueue.wait)
     IN  job' = [job EXCEPT ![i] =
                   [pc |-> "select", jobId |-> jobId,
                    cursor |-> sweepQueue.jobs[jobId].data.cursor,
                    buyOrders |-> << >>,
                    parent |-> sweepQueue.jobs[jobId].data.parent]]
  /\ sweepQueue' = QueueTake(sweepQueue)
  /\ invocations' = invocations + 1
  /\ UNCHANGED << orderRows, orderEvents, sweepAdded, boot, lockHeld, processed >>

\* the select; an empty page ends the handler
SelectBuyOrders(i) ==
  /\ job[i].pc = "select"
  /\ LET buyOrders == Page(Matching(orderRows, job[i].cursor), limit)
     IN  IF Len(buyOrders) > 0
         THEN /\ job' = [job EXCEPT ![i].pc = "delete", ![i].buyOrders = buyOrders]
              /\ UNCHANGED sweepQueue
         ELSE /\ job' = [job EXCEPT ![i].pc = "idle", ![i].buyOrders = buyOrders]
              /\ sweepQueue' = QueueCompleted(sweepQueue, SweepOptions, job[i].jobId)
  /\ UNCHANGED << orderRows, orderEvents, sweepAdded, boot, lockHeld, invocations,
                  processed >>

\* the delete from order_events; a short page ends the handler
DeleteOrderEvents(i) ==
  /\ job[i].pc = "delete"
  /\ orderEvents' = orderEvents \ OrderIdsIn(job[i].buyOrders)
  /\ processed' = processed \o [n \in 1 .. Len(job[i].buyOrders) |->
                                  [created_at |-> job[i].buyOrders[n].created_at,
                                   id |-> job[i].buyOrders[n].id,
                                   invocation |-> invocations]]
  /\ IF PageFull(job[i].buyOrders)
     THEN /\ job' = [job EXCEPT ![i].pc = "addToQueue"]
          /\ UNCHANGED sweepQueue
     ELSE /\ job' = [job EXCEPT ![i].pc = "idle"]
          /\ sweepQueue' = QueueCompleted(sweepQueue, SweepOptions, job[i].jobId)
  /\ UNCHANGED << orderRows, sweepAdded, boot, lockHeld, invocations >>

\* await addToQueue(nextCursor), and the handler returns
EnqueueNext(i) ==
  /\ job[i].pc = "addToQueue"
  /\ sweepQueue' =
       QueueCompleted(addToQueue(sweepQueue, sweepAdded,
                                 << NextCursor(job[i].buyOrders) >>, job[i].cursor),
                      SweepOptions, job[i].jobId)
  /\ sweepAdded' = sweepAdded + 1
  /\ job' = [job EXCEPT ![i].pc = "idle"]
  /\ UNCHANGED << orderRows, orderEvents, boot, lockHeld, invocations, processed >>

\* the await the handler is at rejects: the handler throws
HandlerThrows(i) ==
  /\ job[i].pc \in {"select", "delete", "addToQueue"}
  /\ sweepQueue' = QueueFailed(sweepQueue, SweepOptions, job[i].jobId)
  /\ job' = [job EXCEPT ![i] = IdleJob]
  /\ UNCHANGED << orderRows, orderEvents, sweepAdded, boot, lockHeld, invocations,
                  processed >>

\* the sweep at rest before any instance starts
SweepIdle ==
  /\ orderRows = {}
  /\ orderEvents = {}
  /\ sweepQueue = EmptyQueue
  /\ sweepAdded = 0
  /\ job = [i \in Instances |-> IdleJob]
  /\ boot = [i \in Instances |-> "down"]
  /\ lockHeld = FALSE
  /\ invocations = 0
  /\ processed = << >>

(***************************************************************************)
(* Re-delivery and a changing order table.  A job whose lock lapses is     *)
(* handed out again although its handler ran, or is still running; the     *)
(* scheduler does so once per job (maxStalledCount of bullmq is 1).        *)
(* Orders are inserted and deleted by the rest of the system while the     *)
(* sweep runs.                                                             *)
(***************************************************************************)
VARIABLES
  stalled,        \* the ids of the sweep jobs that were handed out again
  atStart,        \* the orders table when the sweep was bootstrapped
  changes         \* the orders inserted or deleted since

deliveryVars == << stalled, atStart, changes >>

\* the inserts and deletes of orders in one behaviour
MaxChanges == 2

DeliveryIdle ==
  /\ stalled = {}
  /\ atStart = {}
  /\ changes = 0

\* the lock of the job the worker of instance i runs lapses: the job waits
\* again while its handler goes on
Stall(i) ==
  /\ job[i].pc \in {"select", "delete", "addToQueue"}
  /\ job[i].jobId \in sweepQueue.active
  /\ job[i].jobId \notin stalled
  /\ sweepQueue' = QueueStalled(sweepQueue, job[i].jobId)
  /\ stalled' = stalled \cup {job[i].jobId}
  /\ UNCHANGED << orderRows, orderEvents, sweepAdded, job, boot, lockHeld,
                  invocations, processed, atStart, changes >>

\* the bootstrap, the table of that moment being noted
BootstrapSweep(i) ==
  /\ Bootstrap(i)
  /\ atStart' = orderRows
  /\ UNCHANGED << stalled, changes >>

\* the order ids in a table
IdsOf(rows) == { r.id : r \in rows }

\* the newest created_at of a table, 0 for an empty one
NewestTick(rows) ==
  IF rows = {} THEN 0
  ELSE CHOOSE t \in { r.created_at : r \in rows } :
         \A r \in rows : r.created_at <= t

\* an order is inserted while the sweep runs: a new id, created now, with its
\* first row in order_events
InsertOrder(id, tick, side) ==
  /\ \E i \in Instances : boot[i] = "bootstrapped"
  /\ id \notin IdsOf(orderRows) \cup IdsOf(atStart) \cup orderEvents
  /\ \A n \in DOMAIN processed : processed[n].id # id
  /\ tick >= NewestTick(orderRows \cup atStart)
  /\ orderRows' = orderRows \cup {[created_at |-> tick, id |-> id, side |-> side]}
  /\ orderEvents' = orderEvents \cup {id}
  /\ changes < MaxChanges
  /\ changes' = changes + 1
  /\ UNCHANGED << sweepQueue, sweepAdded, job, boot, lockHeld, invocations,
                  processed, stalled, atStart >>

\* an order is deleted while the sweep runs; its rows in order_events stay
DeleteOrder(id) ==
  /\ \E i \in Instances : boot[i] = "bootstrapped"
  /\ id \in IdsOf(orderRows)
  /\ changes < MaxChanges
  /\ changes' = changes + 1
  /\ orderRows' = { r \in orderRows : r.id # id }
  /\ UNCHANGED << orderEvents, sweepQueue, sweepAdded, job, boot, lockHeld,
                  invocations, processed, stalled, atStart >>

(***************************************************************************)
(* The resync-attribute-cache queue.  What the handler writes (the         *)
(* attribute cache) is not part of the state: the handler returns or       *)
(* throws.                                                                 *)
(***************************************************************************)
\* number of token ids that are scheduled for a resync
MaxToken == 2

\* defaultJobOptions and the worker's concurrency; removeOnComplete: true keeps
\* no completed job
ResyncOptions ==
  [backoff |-> NoBackoff, concurrency |-> 3, removeOnComplete |-> 0,
   attempts |-> 10, removeOnFail |-> 100]

\* delay = 60 * 60 * 1000
DefaultDelay == 60 * 60 * 1000

\* the delays addToQueue is called with
ResyncDelays == {0, DefaultDelay}

ResyncContracts == {"c1"}

\* `${contract}:${tokenId}`
Token(contract, tokenId) == << contract, ":", tokenId >>

VARIABLES
  resyncQ         \* resync-attribute-cache-queue

resyncVars == << resyncQ >>

ResyncInit == resyncQ = EmptyQueue

\* addToQueue(contract, tokenId, delay)
ResyncAddToQueue(contract, tokenId, delay) ==
  LET token == Token(contract, tokenId)
  IN  resyncQ' = QueueAdd(resyncQ, token,
                          [contract |-> contract, tokenId |-> tokenId], delay)

\* the QueueScheduler promotes a delayed job
ResyncPromote ==
  \E jobId \in resyncQ.delayed : resyncQ' = QueuePromote(resyncQ, jobId)

\* the Worker starts the handler on the oldest waiting job
ResyncTake ==
  /\ QueueCanTake(resyncQ, ResyncOptions)
  /\ resyncQ' = QueueTake(resyncQ)

\* the handler returns
ResyncHandlerReturns ==
  \E jobId \in resyncQ.active :
    resyncQ' = QueueCompleted(resyncQ, ResyncOptions, jobId)

\* the handler throws: one of its awaits rejects
ResyncHandlerThrows ==
  \E jobId \in resyncQ.active :
    resyncQ' = QueueFailed(resyncQ, ResyncOptions, jobId)

(***************************************************************************)
(* getTransfersV2.  A transfer is a row of nft_transfer_events, identified *)
(* by its block, its log index in the block and its batch index in the     *)
(* log.  The joins with tokens and collections and the price lookup add    *)
(* columns and are left out; the filter is the contract.  A client walks   *)
(* the pages by handing the continuation of a response to the next         *)
(* request.                                                                *)
(***************************************************************************)
\* largest number of rows of nft_transfer_events
MaxTransfers == 3
\* largest limit of a request
MaxLimit == 2

TransferBlocks == {1, 2}
TransferLogIndexes == {0, 1}
TransferBatchIndexes == {0, 1}
TransferContracts == {"a1", "a2"}

TransferKeys == TransferBlocks \X TransferLogIndexes \X TransferBatchIndexes

TransferRow(key, contract) ==
  [block |-> key[1], address |-> contract, log_index |-> key[2],
   batch_index |-> key[3]]

\* the tables of at most MaxTransfers rows
TransferTables ==
  UNION { { { TransferRow(key, contracts[key]) : key \in keys } :
              contracts \in [keys -> TransferContracts] } :
            keys \in { K \in SUBSET TransferKeys : Cardinality(K) <= MaxTransfers } }

VARIABLES
  nft_transfer_events,   \* the table
  walk                   \* the client's walk: filter, limit, the pages got
                         \* so far and the continuation of the last response

transferVars == << nft_transfer_events, walk >>

\* continuation = null
Null == << >>

\* buildContinuation: the base64 encoding of the string
buildContinuation(string) == << "base64", string >>

\* splitContinuation(continuation, /^(\d+)_(\d+)_(\d+)$/): the groups of the
\* decoded string
splitContinuation(continuation) ==
  << continuation[2][1], continuation[2][3], continuation[2][5] >>

\* (block, log_index, batch_index) < (block, logIndex, batchIndex), as rows
RowLess(r, cursor) ==
  \/ r.block < cursor[1]
  \/ r.block = cursor[1] /\ r.log_index < cursor[2]
  \/ r.block = cursor[1] /\ r.log_index = cursor[2] /\ r.batch_index < cursor[3]

\* the WHERE clause: the filter and, with a continuation, the rows before it
TransferConditions(r, contract, continuation) ==
  /\ r.address = contract
  /\ continuation # Null => RowLess(r, splitContinuation(continuation))

\* ORDER BY nft_transfer_events.block DESC: the rows of one block come in any
\* order
OrderByBlockDesc(page) ==
  \A n \in 1 .. Len(page) - 1 : page[n].block >= page[n + 1].block

\* ORDER BY ... LIMIT: the results the database may give, the first
\* queryLimit rows of an ordering of the selected rows
OrderedLimit(rows, queryLimit) ==
  LET size == IF Cardinality(rows) < queryLimit THEN Cardinality(rows)
              ELSE queryLimit
  IN  { page \in [1 .. size -> rows] :
          /\ \A n1, n2 \in 1 .. size : n1 # n2 => page[n1] # page[n2]
          /\ OrderByBlockDesc(page)
          /\ \A r \in rows \ Range(page) : \A n \in 1 .. size :
               page[n].block >= r.block }

\* the continuation of a response
ContinuationOf(rawResult, queryLimit) ==
  IF Len(rawResult) = queryLimit
  THEN LET last == rawResult[Len(rawResult)]
       IN  buildContinuation(<< last.block, "_", last.log_index, "_",
                                last.batch_index >>)
  ELSE Null

\* the handler: the responses a request may get
getTransfersV2(table, contract, queryLimit, continuation) ==
  LET rows == { r \in table : TransferConditions(r, contract, continuation) }
  IN  { [continuation |-> ContinuationOf(rawResult, queryLimit),
         transfers |-> rawResult] :
          rawResult \in OrderedLimit(rows, queryLimit) }

NoWalk ==
  [contract |-> "", continuation |-> Null, queryLimit |-> 0,
   transfers |-> << >>, pages |-> << >>]

TransferIdle ==
  /\ nft_transfer_events = {}
  /\ walk = NoWalk

TransferInit ==
  /\ nft_transfer_events \in TransferTables
  /\ walk = NoWalk

\* the first request of a walk: no continuation
FirstPage(contract, queryLimit) ==
  /\ walk = NoWalk
  /\ \E response \in getTransfersV2(nft_transfer_events, contract, queryLimit, Null) :
       walk' = [contract |-> contract, continuation |-> response.continuation,
                queryLimit |-> queryLimit, transfers |-> response.transfers,
                pages |-> << response >>]
  /\ UNCHANGED nft_transfer_events

\* the next request of the walk: the continuation of the last response
NextPage ==
  /\ walk # NoWalk
  /\ walk.continuation # Null
  /\ \E response \in getTransfersV2(nft_transfer_events, walk.contract,
                                    walk.queryLimit, walk.continuation) :
       walk' = [walk EXCEPT !.continuation = response.continuation,
                            !.transfers = @ \o response.transfers,
                            !.pages = Append(@, response)]
  /\ UNCHANGED nft_transfer_events

(***************************************************************************)
(* The specification of the parser, the ledger and the reconciliation.     *)
(***************************************************************************)
vars ==
  << syncVars, sweepVars, resyncVars, nonceVars, deliveryVars, approvalVars, transferVars >>

\* everything but the state of syncCallback and fixCallback
exceptSync ==
  << sweepVars, resyncVars, nonceVars, deliveryVars, approvalVars, transferVars >>

\* everything but the state of the sweep
exceptSweep ==
  << syncVars, resyncVars, nonceVars, deliveryVars, approvalVars, transferVars >>

\* everything but the state of the sweep and of its deliveries
exceptDelivery ==
  << syncVars, resyncVars, nonceVars, approvalVars, transferVars >>

\* everything but the state of the resync queue
exceptResync ==
  << syncVars, sweepVars, nonceVars, deliveryVars, approvalVars, transferVars >>

\* everything but the state of getMinNonce
exceptNonce ==
  << syncVars, sweepVars, resyncVars, deliveryVars, approvalVars, transferVars >>

Init ==
  /\ SyncInit /\ SweepIdle /\ ResyncInit /\ NonceIdle /\ DeliveryIdle
  /\ ApprovalIdle /\ TransferIdle

Next ==
  \/ /\ \E logs \in AllBatches : \E backfill \in BOOLEAN : SyncStart(logs, backfill)
     /\ UNCHANGED exceptSync
  \/ SyncAddCancelEvents /\ UNCHANGED exceptSync
  \/ SyncAddFillEvents /\ UNCHANGED exceptSync
  \/ SyncAppendFails /\ UNCHANGED exceptSync
  \/ SyncEnqueueHashes /\ UNCHANGED exceptSync
  \/ SyncEnqueueFills /\ UNCHANGED exceptSync
  \/ SyncBulkCancel /\ UNCHANGED exceptSync
  \/ SyncReturn /\ UNCHANGED exceptSync
  \/ (\E b \in BlockHashes : FixStart(b)) /\ UNCHANGED exceptSync
  \/ FixRemoveCancelEvents /\ UNCHANGED exceptSync
  \/ FixRemoveFillEvents /\ UNCHANGED exceptSync
  \/ OrdersUpdateWorker /\ UNCHANGED exceptSync
  \/ FillsHandleWorker /\ UNCHANGED exceptSync

Spec == Init /\ [][Next]_vars

(***************************************************************************)
(* The specification of the sweep: one instance, a table nobody else       *)
(* changes, a handler that does not fail.                                  *)
(***************************************************************************)
SyncIdle ==
  /\ acceptOrders = TRUE
  /\ orders = [h \in OrderHashes |-> "valid"]
  /\ cancelLedger = {}
  /\ fillLedger = {}
  /\ hashQueue = << >>
  /\ fillQueue = << >>
  /\ sync = IdleSync
  /\ syncs = 0
  /\ fix = IdleFix
  /\ snapshot = NoSnapshot

SweepSpecInit ==
  /\ SweepInit /\ SyncIdle /\ ResyncInit /\ NonceIdle /\ DeliveryIdle
  /\ ApprovalIdle /\ TransferIdle

SweepNext ==
  \/ Start(1) /\ UNCHANGED exceptSweep
  \/ Acquire(1) /\ UNCHANGED exceptSweep
  \/ Bootstrap(1) /\ UNCHANGED exceptSweep
  \/ TakeJob(1) /\ UNCHANGED exceptSweep
  \/ SelectBuyOrders(1) /\ UNCHANGED exceptSweep
  \/ DeleteOrderEvents(1) /\ UNCHANGED exceptSweep
  \/ EnqueueNext(1) /\ UNCHANGED exceptSweep

SpecSweep == SweepSpecInit /\ [][SweepNext]_vars

(***************************************************************************)
(* The specification of the resync queue: any calls of addToQueue, a       *)
(* handler that returns or throws.                                         *)
(***************************************************************************)
ResyncSpecInit ==
  /\ ResyncInit /\ SyncIdle /\ SweepIdle /\ NonceIdle /\ DeliveryIdle
  /\ ApprovalIdle /\ TransferIdle

ResyncNext ==
  \/ /\ \E contract \in ResyncContracts : \E tokenId \in 1 .. MaxToken :
          \E delay \in ResyncDelays : ResyncAddToQueue(contract, tokenId, delay)
     /\ UNCHANGED exceptResync
  \/ ResyncPromote /\ UNCHANGED exceptResync
  \/ ResyncTake /\ UNCHANGED exceptResync
  \/ ResyncHandlerReturns /\ UNCHANGED exceptResync
  \/ ResyncHandlerThrows /\ UNCHANGED exceptResync

SpecResync == ResyncSpecInit /\ [][ResyncNext]_vars

(***************************************************************************)
(* The specification of the two job queues with handlers that may throw:   *)
(* one instance.  The queues share no state, so a behaviour exercises one  *)
(* of them: tokens are scheduled for a resync while the order table is     *)
(* empty and the instance has not started, or the sweep is started.        *)
(***************************************************************************)
\* the tables of at most one row
SmallTables == { T \in Tables : Cardinality(T) <= 1 }

QueuesInit ==
  /\ SyncIdle
  /\ NonceIdle
  /\ DeliveryIdle
  /\ ApprovalIdle /\ TransferIdle
  /\ ResyncInit
  /\ SweepInit
  /\ orderRows \in SmallTables

QueuesNext ==
  \/ /\ boot[1] = "down" /\ orderRows = {}
     /\ \E contract \in ResyncContracts : \E tokenId \in 1 .. MaxToken :
          \E delay \in ResyncDelays : ResyncAddToQueue(contract, tokenId, delay)
     /\ UNCHANGED exceptResync
  \/ ResyncPromote /\ UNCHANGED exceptResync
  \/ ResyncTake /\ UNCHANGED exceptResync
  \/ ResyncHandlerReturns /\ UNCHANGED exceptResync
  \/ ResyncHandlerThrows /\ UNCHANGED exceptResync
  \/ resyncQ = EmptyQueue /\ Start(1) /\ UNCHANGED exceptSweep
  \/ Acquire(1) /\ UNCHANGED exceptSweep
  \/ Bootstrap(1) /\ UNCHANGED exceptSweep
  \/ TakeJob(1) /\ UNCHANGED exceptSweep
  \/ SelectBuyOrders(1) /\ UNCHANGED exceptSweep
  \/ DeleteOrderEvents(1) /\ UNCHANGED exceptSweep
  \/ EnqueueNext(1) /\ UNCHANGED exceptSweep
  \/ HandlerThrows(1) /\ UNCHANGED exceptSweep

SpecQueues == QueuesInit /\ [][QueuesNext]_vars

(***************************************************************************)
(* The specification of the failed sets: as SpecQueues, but the resync     *)
(* handler throws on every attempt and one token after the other is        *)
(* scheduled, with the default delay, until more jobs have failed than     *)
(* the queue keeps.                                                        *)
(***************************************************************************)
\* the token ids scheduled: two more than the failed jobs the queue keeps
DeadTokens == ResyncOptions.removeOnFail + 2

\* the token id after the one of the last failed job
NextDeadToken ==
  IF resyncQ.failed = << >> THEN 1
  ELSE resyncQ.failed[Len(resyncQ.failed)][3] + 1

\* no resync job is queued or running
ResyncQuiet ==
  /\ resyncQ.delayed = {}
  /\ resyncQ.wait = << >>
  /\ resyncQ.active = {}

DeadNext ==
  \/ /\ boot[1] = "down" /\ orderRows = {}
     /\ ResyncQuiet
     /\ NextDeadToken <= DeadTokens
     /\ \E contract \in ResyncContracts :
          ResyncAddToQueue(contract, NextDeadToken, DefaultDelay)
     /\ UNCHANGED exceptResync
  \/ ResyncPromote /\ UNCHANGED exceptResync
  \/ ResyncTake /\ UNCHANGED exceptResync
  \/ ResyncHandlerThrows /\ UNCHANGED exceptResync
  \/ resyncQ = EmptyQueue /\ Start(1) /\ UNCHANGED exceptSweep
  \/ Acquire(1) /\ UNCHANGED exceptSweep
  \/ Bootstrap(1) /\ UNCHANGED exceptSweep
  \/ TakeJob(1) /\ UNCHANGED exceptSweep
  \/ SelectBuyOrders(1) /\ UNCHANGED exceptSweep
  \/ DeleteOrderEvents(1) /\ UNCHANGED exceptSweep
  \/ EnqueueNext(1) /\ UNCHANGED exceptSweep
  \/ HandlerThrows(1) /\ UNCHANGED exceptSweep

SpecDead == QueuesInit /\ [][DeadNext]_vars

(***************************************************************************)
(* The specification of the bootstrap: several instances of the process    *)
(* start, stop and start again in any interleaving while the lock, once    *)
(* acquired, stays held; their workers share the one queue.                *)
(***************************************************************************)
BootNext ==
  \/ \E i \in Instances : Start(i) /\ UNCHANGED exceptSweep
  \/ \E i \in Instances : Acquire(i) /\ UNCHANGED exceptSweep
  \/ \E i \in Instances : AcquireFails(i) /\ UNCHANGED exceptSweep
  \/ \E i \in Instances : Bootstrap(i) /\ UNCHANGED exceptSweep
  \/ \E i \in Instances : BootstrapFails(i) /\ UNCHANGED exceptSweep
  \/ \E i \in Instances : Stop(i) /\ UNCHANGED exceptSweep
  \/ \E i \in Instances : TakeJob(i) /\ UNCHANGED exceptSweep
  \/ \E i \in Instances : SelectBuyOrders(i) /\ UNCHANGED exceptSweep
  \/ \E i \in Instances : DeleteOrderEvents(i) /\ UNCHANGED exceptSweep
  \/ \E i \in Instances : EnqueueNext(i) /\ UNCHANGED exceptSweep

SpecBoot == QueuesInit /\ [][BootNext]_vars

(***************************************************************************)
(* The specification of getMinNonce: any chain, any small table, any call. *)
(***************************************************************************)
NonceSpecInit ==
  /\ NonceInit /\ SyncIdle /\ SweepIdle /\ ResyncInit /\ DeliveryIdle
  /\ ApprovalIdle /\ TransferIdle

NonceNext ==
  /\ \E orderKind \in OrderKinds : \E maker \in NonceMakers :
       GetMinNonce(orderKind, maker)
  /\ UNCHANGED exceptNonce

SpecNonce == NonceSpecInit /\ [][NonceNext]_vars

(***************************************************************************)
(* The specification of re-delivery: one instance whose handler may throw  *)
(* and whose jobs may be handed out a second time.                         *)
(***************************************************************************)
\* the failed attempts of one job in a behaviour of this specification
MaxThrows == 1

RedeliverNext ==
  \/ Start(1) /\ UNCHANGED exceptSweep
  \/ Acquire(1) /\ UNCHANGED exceptSweep
  \/ Bootstrap(1) /\ UNCHANGED exceptSweep
  \/ TakeJob(1) /\ UNCHANGED exceptSweep
  \/ SelectBuyOrders(1) /\ UNCHANGED exceptSweep
  \/ DeleteOrderEvents(1) /\ UNCHANGED exceptSweep
  \/ EnqueueNext(1) /\ UNCHANGED exceptSweep
  \/ /\ job[1].jobId \in DOMAIN sweepQueue.jobs
     /\ sweepQueue.jobs[job[1].jobId].attemptsMade < MaxThrows
     /\ HandlerThrows(1)
     /\ UNCHANGED exceptSweep
  \/ Stall(1) /\ UNCHANGED exceptDelivery

SpecRedeliver == QueuesInit /\ [][RedeliverNext]_vars

(***************************************************************************)
(* The specification of a sweep over a table that changes: one instance,   *)
(* a handler that does not fail, orders inserted and deleted meanwhile.    *)
(***************************************************************************)
ChurnNext ==
  \/ Start(1) /\ UNCHANGED exceptSweep
  \/ Acquire(1) /\ UNCHANGED exceptSweep
  \/ BootstrapSweep(1) /\ UNCHANGED exceptDelivery
  \/ TakeJob(1) /\ UNCHANGED exceptSweep
  \/ SelectBuyOrders(1) /\ UNCHANGED exceptSweep
  \/ DeleteOrderEvents(1) /\ UNCHANGED exceptSweep
  \/ EnqueueNext(1) /\ UNCHANGED exceptSweep
  \/ /\ \E id \in OrderIds : \E tick \in Ticks : \E side \in {"buy", "sell"} :
          InsertOrder(id, tick, side)
     /\ UNCHANGED exceptDelivery
  \/ (\E id \in OrderIds : DeleteOrder(id)) /\ UNCHANGED exceptDelivery

SpecChurn == QueuesInit /\ [][ChurnNext]_vars

(***************************************************************************)
(* The specification of the workers' concurrency: more resync tokens than  *)
(* the resync worker runs at a time, or a sweep whose items are handed out *)
(* twice so that several wait.                                             *)
(***************************************************************************)
\* one token more than the resync worker handles at a time
ConcurrencyTokens == ResyncOptions.concurrency + 1

ConcurrencyNext ==
  \/ /\ boot[1] = "down" /\ orderRows = {}
     /\ \E contract \in ResyncContracts : \E tokenId \in 1 .. ConcurrencyTokens :
          ResyncAddToQueue(contract, tokenId, 0)
     /\ UNCHANGED exceptResync
  \/ ResyncTake /\ UNCHANGED exceptResync
  \/ ResyncHandlerReturns /\ UNCHANGED exceptResync
  \/ resyncQ = EmptyQueue /\ Start(1) /\ UNCHANGED exceptSweep
  \/ Acquire(1) /\ UNCHANGED exceptSweep
  \/ Bootstrap(1) /\ UNCHANGED exceptSweep
  \/ TakeJob(1) /\ UNCHANGED exceptSweep
  \/ SelectBuyOrders(1) /\ UNCHANGED exceptSweep
  \/ DeleteOrderEvents(1) /\ UNCHANGED exceptSweep
  \/ EnqueueNext(1) /\ UNCHANGED exceptSweep
  \/ Stall(1) /\ UNCHANGED exceptDelivery

SpecConcurrency == QueuesInit /\ [][ConcurrencyNext]_vars

(***************************************************************************)
(* The specification of getNftApproval: any table, any call.               *)
(***************************************************************************)
exceptApproval ==
  << syncVars, sweepVars, resyncVars, nonceVars, deliveryVars, transferVars >>

ApprovalSpecInit ==
  /\ ApprovalInit /\ TransferIdle
  /\ SyncIdle /\ SweepIdle /\ ResyncInit /\ NonceIdle /\ DeliveryIdle

ApprovalNext ==
  /\ \E triple \in ApprovalTriples : GetNftApproval(triple)
  /\ UNCHANGED exceptApproval

SpecApproval == ApprovalSpecInit /\ [][ApprovalNext]_vars

(***************************************************************************)
(* The specification of syncCallback over orders of any status: live       *)
(* batches, acceptOrders on, at most one order not valid at the start.     *)
(***************************************************************************)
OrderTables ==
  { [h \in OrderHashes |-> "valid"] } \cup
  { [h \in OrderHashes |-> IF h = g THEN s ELSE "valid"] :
      g \in OrderHashes, s \in Statuses }

FrameInit ==
  /\ acceptOrders = TRUE
  /\ orders \in OrderTables
  /\ cancelLedger = {}
  /\ fillLedger = {}
  /\ hashQueue = << >>
  /\ fillQueue = << >>
  /\ sync = IdleSync
  /\ syncs = 0
  /\ fix = IdleFix
  /\ snapshot = NoSnapshot
  /\ SweepIdle /\ ResyncInit /\ NonceIdle /\ DeliveryIdle /\ ApprovalIdle /\ TransferIdle

FrameNext ==
  \/ (\E logs \in AllBatches : SyncStart(logs, FALSE)) /\ UNCHANGED exceptSync
  \/ SyncAddCancelEvents /\ UNCHANGED exceptSync
  \/ SyncAddFillEvents /\ UNCHANGED exceptSync
  \/ SyncEnqueueHashes /\ UNCHANGED exceptSync
  \/ SyncEnqueueFills /\ UNCHANGED exceptSync
  \/ SyncBulkCancel /\ UNCHANGED exceptSync
  \/ SyncReturn /\ UNCHANGED exceptSync

SpecFrame == FrameInit /\ [][FrameNext]_vars

(***************************************************************************)
(* The specification of getTransfersV2: a table and a walk through its     *)
(* pages with a fixed filter and limit.                                    *)
(***************************************************************************)
\* everything but the state of getTransfersV2
exceptTransfer ==
  << syncVars, sweepVars, resyncVars, nonceVars, deliveryVars, approvalVars >>

TransferSpecInit ==
  /\ TransferInit
  /\ SyncIdle /\ SweepIdle /\ ResyncInit /\ NonceIdle /\ DeliveryIdle
  /\ ApprovalIdle

TransferNext ==
  \/ /\ \E contract \in TransferContracts : \E queryLimit \in 1 .. MaxLimit :
          FirstPage(contract, queryLimit)
     /\ UNCHANGED exceptTransfer
  \/ NextPage /\ UNCHANGED exceptTransfer

SpecTransfers == TransferSpecInit /\ [][TransferNext]_vars

(***************************************************************************)
(* What a batch is expected to yield, stated from the logs alone.          *)
(***************************************************************************)
WellFormed(log, topic) == ~Throws(log) /\ log.topic = topic

LogsOf(logs, topic) == { i \in 1 .. Len(logs) : WellFormed(logs[i], topic) }

\* transactionHash-logIndex of the originating log
ContextOf(log) == << log.txHash, "-", log.logIndex >>

ExpectedCancelEvents(logs) ==
  { [baseParams |-> parseEvent(logs[i]), orderHash |-> ToLowerCase(logs[i].hash)] :
      i \in LogsOf(logs, "OrderCancelled") }

ExpectedFillEvents(logs) ==
  { [maker |-> ToLowerCase(logs[i].maker),
     buyHash |-> ToLowerCase(logs[i].buyHash),
     sellHash |-> ToLowerCase(logs[i].sellHash),
     baseParams |-> parseEvent(logs[i])] : i \in LogsOf(logs, "OrdersMatched") }

ExpectedBulkCancelEvents(logs) ==
  { [maker |-> ToLowerCase(logs[i].maker), newNonce |-> logs[i].newNonce,
     context |-> ContextOf(logs[i])] : i \in LogsOf(logs, "NonceIncremented") }

\* how often an item occurs in a sequence
ItemCount(seq, item) == Cardinality({ i \in 1 .. Len(seq) : seq[i] = item })

\* the call is past its two queue writes
PastEnqueue ==
  \/ sync.pc \in {"bulkCancel", "done"}
  \/ sync.pc = "failed" /\ sync.cause = "statement"

\* the call is past its two ledger appends
PastAppend == sync.pc \in {"enqueueHashes", "enqueueFills"} \/ PastEnqueue

\* the call has settled without a ledger failure
Settled == sync.pc \in {"done", "failed"} /\ sync.cause # "append"

\* every decoded cancel and fill of the batch has its work items, once each
WorkItemsSent ==
  /\ \A i \in LogsOf(sync.logs, "OrderCancelled") :
       ItemCount(sync.hashSent,
                 [hash |-> ToLowerCase(sync.logs[i].hash),
                  context |-> ContextOf(sync.logs[i])]) = 1
  /\ \A i \in LogsOf(sync.logs, "OrdersMatched") :
       /\ ItemCount(sync.hashSent,
                    [hash |-> ToLowerCase(sync.logs[i].buyHash),
                     context |-> ContextOf(sync.logs[i])]) = 1
       /\ ItemCount(sync.hashSent,
                    [hash |-> ToLowerCase(sync.logs[i].sellHash),
                     context |-> ContextOf(sync.logs[i])]) = 1
       /\ ItemCount(sync.fillSent,
                    [buyHash |-> ToLowerCase(sync.logs[i].buyHash),
                     sellHash |-> ToLowerCase(sync.logs[i].sellHash),
                     block |-> sync.logs[i].block,
                     context |-> ContextOf(sync.logs[i])]) = 1
  /\ Len(sync.hashSent) =
       Cardinality(LogsOf(sync.logs, "OrderCancelled"))
         + 2 * Cardinality(LogsOf(sync.logs, "OrdersMatched"))
  /\ Len(sync.fillSent) = Cardinality(LogsOf(sync.logs, "OrdersMatched"))

\* the orders a bulk-cancel event is to cancel, given the statuses the call found
Affected(ev) ==
  { h \in OrderHashes :
      /\ OrderRow(h).kind = "wyvern-v2.3"
      /\ OrderRow(h).maker = ev.maker
      /\ OrderRow(h).nonce < ev.newNonce
      /\ snapshot.orders[h] \in {"valid", "no-balance"} }

\* a live bulk-cancel event has been handled
LiveBulkCancelSettled ==
  /\ Settled
  /\ ~sync.backfill
  /\ acceptOrders
  /\ sync.parsed.bulkCancelEvents # << >>

(***************************************************************************)
(* Claims.                                                                 *)
(***************************************************************************)
\* C1: a log whose decoding throws is skipped: the parse loop raises nothing,
\* and every well-formed OrderCancelled, OrdersMatched and NonceIncremented
\* log of the batch yields its event, wherever the malformed logs stand.
C1_MalformedLogSkipped ==
  sync.pc # "idle" =>
    /\ sync.cause # "parse"
    /\ ~sync.parsed.thrown
    /\ Range(sync.parsed.cancelEvents) = ExpectedCancelEvents(sync.logs)
    /\ Len(sync.parsed.cancelEvents) = Cardinality(LogsOf(sync.logs, "OrderCancelled"))
    /\ Range(sync.parsed.fillEvents) = ExpectedFillEvents(sync.logs)
    /\ Len(sync.parsed.fillEvents) = Cardinality(LogsOf(sync.logs, "OrdersMatched"))
    /\ Range(sync.parsed.bulkCancelEvents) = ExpectedBulkCancelEvents(sync.logs)
    /\ Len(sync.parsed.bulkCancelEvents) =
         Cardinality(LogsOf(sync.logs, "NonceIncremented"))
    /\ sync.parsed.logged =
         Cardinality({ i \in 1 .. Len(sync.logs) : Throws(sync.logs[i]) })

\* a batch with a malformed log between two well-formed ones has been parsed
C1_Witness ==
  /\ sync.pc = "addCancelEvents"
  /\ \E i, j, k \in 1 .. Len(sync.logs) :
       /\ i < j /\ j < k
       /\ WellFormed(sync.logs[i], "OrderCancelled")
       /\ Throws(sync.logs[j])
       /\ WellFormed(sync.logs[k], "OrdersMatched")
  /\ Len(sync.parsed.cancelEvents) = 1
  /\ Len(sync.parsed.fillEvents) = 1

\* C2: during a call with backfill = true nothing is added to the
\* reconciliation queue or to the fill-accounting queue, whatever the batch.
C2_BackfillEnqueuesNothing ==
  [][(sync.pc # "idle" /\ sync.backfill) =>
       /\ Len(hashQueue') <= Len(hashQueue)
       /\ Len(fillQueue') <= Len(fillQueue)
       /\ sync'.hashSent = << >> /\ sync'.fillSent = << >>
       /\ sync'.bulkSent = << >>]_vars

\* a backfill call on a batch with a cancel, a fill and a nonce increment ended
C2_Witness ==
  /\ sync.pc = "done"
  /\ sync.backfill
  /\ acceptOrders
  /\ sync.parsed.cancelEvents # << >>
  /\ sync.parsed.fillEvents # << >>
  /\ sync.parsed.bulkCancelEvents # << >>
  /\ hashQueue = << >>
  /\ fillQueue = << >>

\* C3: once the call is past its appends the ledger holds what it held before
\* plus the cancel and fill events of the batch, whatever backfill and
\* acceptOrders are.
C3_LedgerAppendsRegardless ==
  (snapshot.phase = "syncing" /\ PastAppend) =>
    /\ cancelLedger = snapshot.cancels \cup ExpectedCancelEvents(sync.logs)
    /\ fillLedger = snapshot.fills \cup ExpectedFillEvents(sync.logs)

\* a backfill call has appended a cancel and a fill
C3_Witness ==
  /\ sync.pc = "done"
  /\ sync.backfill
  /\ ExpectedCancelEvents(sync.logs) # {}
  /\ ExpectedFillEvents(sync.logs) # {}
  /\ ExpectedCancelEvents(sync.logs) \subseteq cancelLedger
  /\ ExpectedFillEvents(sync.logs) \subseteq fillLedger

\* C4, as claimed: with backfill = false every decoded cancel has exactly one
\* reconciliation item, every decoded fill one per hash and one fill item.
C4_LiveBatchEnqueues ==
  (Settled /\ ~sync.backfill) => WorkItemsSent

\* C4, amended: the same, with backfill = false and acceptOrders set.
C4_LiveAcceptedBatchEnqueues ==
  (PastEnqueue /\ ~sync.backfill /\ acceptOrders) => WorkItemsSent

\* a live call with acceptOrders set has sent the items of a cancel and a fill
C4_Witness ==
  /\ sync.pc = "done"
  /\ ~sync.backfill
  /\ acceptOrders
  /\ LogsOf(sync.logs, "OrderCancelled") # {}
  /\ LogsOf(sync.logs, "OrdersMatched") # {}
  /\ Len(sync.hashSent) = 3
  /\ Len(sync.fillSent) = 1

\* C5: after a live bulk-cancel event every order of the maker with a smaller
\* nonce that was valid or no-balance is cancelled and has a reconciliation
\* item.
C5_BulkCancelCancelsOrders ==
  LiveBulkCancelSettled =>
    \A i \in 1 .. Len(sync.parsed.bulkCancelEvents) :
      \A h \in Affected(sync.parsed.bulkCancelEvents[i]) :
        /\ orders[h] = "cancelled"
        /\ \E n \in 1 .. Len(sync.bulkSent) : sync.bulkSent[n].hash = h

\* C6: the bulk-cancel transition of an order is observed exactly once: the
\* order has one bulk-cancel reconciliation item, not more and not none.
C6_BulkCancelObservedOnce ==
  LiveBulkCancelSettled =>
    \A i \in 1 .. Len(sync.parsed.bulkCancelEvents) :
      \A h \in Affected(sync.parsed.bulkCancelEvents[i]) :
        Cardinality({ n \in 1 .. Len(sync.bulkSent) : sync.bulkSent[n].hash = h }) = 1

\* C7: once the logs of a block were processed, the block was then removed and
\* the queues have drained, the ledger and the order statuses are those of
\* before the block was processed.
C7_ReorgRoundTrip ==
  ( /\ snapshot.phase = "fixed"
    /\ hashQueue = << >>
    /\ fillQueue = << >>
    /\ \A e \in snapshot.cancels \cup snapshot.fills :
         e.baseParams.blockHash # snapshot.blockHash )
  => /\ cancelLedger = snapshot.cancels
     /\ fillLedger = snapshot.fills
     /\ orders = snapshot.orders

\* C8: when fixCallback settles, every order hash referenced by a cancel or
\* fill event it removed has a reconciliation item in the queue.
C8_RemovalReenqueues ==
  [][(fix.pc = "removeFillEvents" /\ fix'.pc = "idle") =>
       \A h \in fix.removed
                  \cup { e.buyHash : e \in fillLedger \ fillLedger' }
                  \cup { e.sellHash : e \in fillLedger \ fillLedger' } :
         \E n \in 1 .. Len(hashQueue') : hashQueue'[n].hash = h]_vars

(***************************************************************************)
(* What the sweep is expected to do.                                       *)
(***************************************************************************)
\* the buy-order rows of the table
BuyRows == { r \in orderRows : r.side = "buy" }

\* M
RowCount == Cardinality(BuyRows)

\* the handler has returned and nothing waits in the queue
SweepDone ==
  /\ \E i \in Instances : boot[i] = "bootstrapped"
  /\ \A i \in Instances : job[i].pc = "idle"
  /\ sweepQueue.wait = << >>
  /\ sweepQueue.delayed = {}
  /\ sweepQueue.active = {}

\* the composite order on (createdAt, id), createdAt in seconds and fraction
CursorLess(a, b) ==
  \/ a.createdAt.seconds < b.createdAt.seconds
  \/ /\ a.createdAt.seconds = b.createdAt.seconds
     /\ a.createdAt.fraction < b.createdAt.fraction
  \/ /\ a.createdAt = b.createdAt
     /\ a.id < b.id

\* a page row as a point of the composite order
RowPoint(o) == [createdAt |-> o.created_at, id |-> o.id]

\* C9: with M buy rows, page size 1, an unchanging table and a handler that
\* does not fail, a sweep started with no cursor takes exactly M + 1 handler
\* invocations: each of the first M reads and processes exactly one row and
\* enqueues one follow-up, the M+1th reads zero rows and enqueues nothing, and
\* then the queue is empty; the sweep never stops before that and cannot stall.
C9_SweepTerminates ==
  /\ invocations <= RowCount + 1
  /\ (invocations >= 1 /\ job[1].pc # "select") =>
       Len(job[1].buyOrders) = (IF invocations <= RowCount THEN 1 ELSE 0)
  /\ Len(processed) =
       (IF job[1].pc \in {"select", "delete"} THEN invocations - 1
        ELSE IF invocations <= RowCount THEN invocations ELSE RowCount)
  /\ \A n \in 1 .. Len(processed) : processed[n].invocation = n
  /\ invocations = RowCount + 1 =>
       /\ sweepQueue.wait = << >>
       /\ job[1].pc \in {"select", "idle"}
       /\ sweepAdded = RowCount + 1
  /\ Len(sweepQueue.wait) + Cardinality(sweepQueue.active) <= 1
  /\ sweepQueue.delayed = {}
  /\ (job[1].pc = "idle") = (sweepQueue.active = {})
  /\ SweepDone =>
       /\ invocations = RowCount + 1
       /\ { processed[i].id : i \in 1 .. Len(processed) } = { r.id : r \in BuyRows }
       /\ orderEvents = { r.id : r \in orderRows \ BuyRows }
  /\ (boot[1] # "down" /\ ~SweepDone) => ENABLED SweepNext

\* a sweep over two or more buy rows has finished
C9_Witness ==
  /\ RowCount >= 2
  /\ SweepDone
  /\ invocations = RowCount + 1
  /\ Len(processed) = RowCount

\* C10: a follow-up item's cursor is strictly below, in the (createdAt, id)
\* order, the cursor of the item that enqueued it; every row an invocation
\* reads is strictly below that invocation's cursor; the rows processed along
\* the chain strictly descend, so none is processed twice.
C10_CursorMonotone ==
  /\ \A jobId \in DOMAIN sweepQueue.jobs :
       LET item == sweepQueue.jobs[jobId].data
       IN  item.parent # << >> =>
             /\ item.cursor # << >>
             /\ CursorLess(item.cursor[1], item.parent[1])
  /\ \A i \in Instances :
       /\ job[i].parent # << >> =>
            /\ job[i].cursor # << >>
            /\ CursorLess(job[i].cursor[1], job[i].parent[1])
       /\ job[i].cursor # << >> =>
            \A n \in 1 .. Len(job[i].buyOrders) :
              CursorLess(RowPoint(job[i].buyOrders[n]), job[i].cursor[1])
  /\ \A n, k \in 1 .. Len(processed) :
       n < k => CursorLess(RowPoint(processed[k]), RowPoint(processed[n]))

\* an item enqueued by an item that had a cursor itself has read a row created
\* at the same time as the row before it
C10_Witness ==
  /\ job[1].pc = "delete"
  /\ job[1].cursor # << >>
  /\ job[1].parent # << >>
  /\ Len(job[1].buyOrders) = 1
  /\ job[1].buyOrders[1].created_at = job[1].cursor[1].createdAt
  /\ Len(processed) >= 2

(***************************************************************************)
(* What the job queues are expected to do.                                 *)
(***************************************************************************)
\* the tokens addToQueue is called with
ResyncTokens ==
  { Token(contract, tokenId) : contract \in ResyncContracts, tokenId \in 1 .. MaxToken }

\* how many queued items (delayed or waiting) a job id has
QueuedCount(q, jobId) ==
  ItemCount(q.wait, jobId) + (IF jobId \in q.delayed THEN 1 ELSE 0)

\* C11: while the resync item of a token is queued and not yet processed, the
\* token has exactly one queued item, with the payload of its token, and a
\* further addToQueue(contract, tokenId, delay), whatever its delay, changes
\* nothing: not the payload, not the delay, not the queue.
C11_DedupEnqueue ==
  \A contract \in ResyncContracts : \A tokenId \in 1 .. MaxToken :
    LET token == Token(contract, tokenId)
        data == [contract |-> contract, tokenId |-> tokenId]
    IN  /\ QueuedCount(resyncQ, token) <= 1
        /\ QueuedCount(resyncQ, token) = 1 =>
             /\ token \notin resyncQ.active
             /\ resyncQ.jobs[token].data = data
             /\ \A delay \in ResyncDelays :
                  QueueAdd(resyncQ, token, data, delay) = resyncQ

\* two tokens are queued, one delayed by the default delay and one retried;
\* an add of either with another delay changes nothing
C11_Witness ==
  \E t1, t2 \in ResyncTokens :
    /\ t1 # t2
    /\ t1 \in resyncQ.delayed
    /\ resyncQ.jobs[t1].delay = DefaultDelay
    /\ QueueAdd(resyncQ, t1, resyncQ.jobs[t1].data, 0) = resyncQ
    /\ ItemCount(resyncQ.wait, t2) = 1
    /\ resyncQ.jobs[t2].attemptsMade = 2
    /\ QueueAdd(resyncQ, t2, resyncQ.jobs[t2].data, DefaultDelay) = resyncQ

\* a queue's jobs are within the attempt ceiling: a queued or running job has
\* failed fewer than attempts times, a job of the failed set has failed exactly
\* attempts times, after attempts - 1 retries, and is neither queued nor running
WithinAttempts(q, options) ==
  /\ \A jobId \in DOMAIN q.jobs :
       /\ q.jobs[jobId].attemptsMade <= options.attempts
       /\ (jobId \in q.delayed \cup Range(q.wait) \cup q.active) =>
            q.jobs[jobId].attemptsMade < options.attempts
  /\ \A n \in 1 .. Len(q.failed) :
       /\ q.failed[n] \in DOMAIN q.jobs
       /\ q.jobs[q.failed[n]].attemptsMade = options.attempts
       /\ Len(q.jobs[q.failed[n]].retryDelays) = options.attempts - 1
       /\ q.failed[n] \notin q.delayed \cup Range(q.wait) \cup q.active

\* C12: in both queues a job is attempted at most 10 times; one whose handler
\* threw 10 times is in the failed set and is never queued or run again; and
\* the worker still takes the other waiting jobs.
C12_RetryCeiling ==
  /\ ResyncOptions.attempts = 10 /\ SweepOptions.attempts = 10
  /\ WithinAttempts(resyncQ, ResyncOptions)
  /\ WithinAttempts(sweepQueue, SweepOptions)
  /\ (resyncQ.failed # << >> /\ QueueCanTake(resyncQ, ResyncOptions)) =>
       ENABLED ResyncTake
  /\ (sweepQueue.failed # << >> /\ sweepQueue.wait # << >>
        /\ boot[1] # "down" /\ job[1].pc = "idle") => ENABLED TakeJob(1)

\* a resync job has exhausted its attempts and the worker runs another job
\* that has failed before
C12_Witness ==
  \E t1, t2 \in ResyncTokens :
    /\ t1 # t2
    /\ resyncQ.failed = << t1 >>
    /\ resyncQ.jobs[t1].attemptsMade = 10
    /\ t2 \in resyncQ.active
    /\ resyncQ.jobs[t2].attemptsMade = 9

\* the delays a queue imposed before the retries of its jobs grow strictly
\* and none is zero
BackoffGrows(q) ==
  \A jobId \in DOMAIN q.jobs :
    LET delays == q.jobs[jobId].retryDelays
    IN  /\ \A k \in 1 .. Len(delays) : delays[k] > 0
        /\ \A k \in 1 .. Len(delays) - 1 : delays[k + 1] > delays[k]

\* C13: in both queues the delay before attempt k + 1 of a failing job is
\* strictly larger than the delay before attempt k, and no retry is immediate.
C13_ExponentialBackoff ==
  /\ BackoffGrows(resyncQ)
  /\ BackoffGrows(sweepQueue)

\* a step of a queue treats its failed set as a bounded, retaining set: the
\* set changes only by a job that ran and has now failed for the last time
\* entering as the newest, and jobs leave it only from the oldest end and only
\* when the set would otherwise exceed cap
FailedSetStep(q, qNext, cap) ==
  qNext.failed # q.failed =>
    \E jobId \in q.active \ qNext.active :
      LET all == Append(q.failed, jobId)
          kept == Len(qNext.failed)
      IN  /\ kept >= 1
          /\ qNext.failed = SubSeq(all, Len(all) - kept + 1, Len(all))
          /\ kept < Len(all) => kept = cap
          /\ jobId \in DOMAIN qNext.jobs

\* a job that ran and is now neither queued, running nor completed is in the
\* failed set
ExhaustedIsKept(q, qNext) ==
  \A jobId \in q.active \ qNext.active :
    (jobId \notin qNext.delayed \cup Range(qNext.wait) \cup Range(qNext.completed)
       /\ Len(qNext.completed) = Len(q.completed)) =>
      qNext.failed # << >> /\ qNext.failed[Len(qNext.failed)] = jobId

\* C14: the failed set of a queue never holds more than its cap (10000 jobs
\* for remove-buy-order-events, 100 for resync-attribute-cache); a job that
\* exhausts its attempts enters it as the newest and stays until newer
\* failures push it out at the cap.
C14_DeadLetterBounded ==
  /\ [](/\ SweepOptions.removeOnFail = 10000
        /\ ResyncOptions.removeOnFail = 100
        /\ Len(sweepQueue.failed) <= 10000
        /\ Len(resyncQ.failed) <= 100)
  /\ [][/\ FailedSetStep(resyncQ, resyncQ', 100)
        /\ FailedSetStep(sweepQueue, sweepQueue', 10000)
        /\ ExhaustedIsKept(resyncQ, resyncQ')
        /\ ExhaustedIsKept(sweepQueue, sweepQueue')]_vars

\* the resync queue keeps 100 failed jobs, the newest having pushed out the
\* oldest
C14_Witness ==
  /\ Len(resyncQ.failed) = 100
  /\ resyncQ.failed[1] = Token("c1", 2)
  /\ resyncQ.failed[100] = Token("c1", 101)

\* the cursor-less items ever put on the sweep queue
BootstrapItems ==
  { jobId \in DOMAIN sweepQueue.jobs : sweepQueue.jobs[jobId].data.cursor = << >> }

\* no instance is between its start and the end of its acquire-then-enqueue
BootSettled ==
  \A i \in Instances : boot[i] \notin {"acquiring", "acquired"}

\* C15: bootstrap-once: however the instances start and restart while the lock
\* is held, never more than one cursor-less item is enqueued, and once the
\* lock is held and every started instance is through its bootstrap, exactly
\* one is.
C15_BootstrapOnce ==
  /\ Cardinality(BootstrapItems) <= 1
  /\ (lockHeld /\ BootSettled) => Cardinality(BootstrapItems) = 1

\* the step in which the acquire of instance i is rejected
AcquireRejected(i) ==
  /\ boot[i] = "acquiring"
  /\ lockHeld
  /\ boot'[i] = "skipped"

\* C16: an instance whose acquire of the lock fails enqueues nothing and
\* raises nothing: the step changes only that instance's bootstrap, which is
\* skipped; and its worker still takes an item enqueued by another instance
\* whenever it is idle and an item waits.
C16_FailedAcquireSilent ==
  /\ [][\A i \in Instances :
          AcquireRejected(i) =>
            /\ UNCHANGED << orderRows, orderEvents, sweepQueue, sweepAdded, job,
                            lockHeld, invocations, processed >>
            /\ \A k \in Instances \ {i} : boot'[k] = boot[k]]_vars
  /\ [](\A i \in Instances :
          (boot[i] = "skipped" /\ job[i].pc = "idle" /\ sweepQueue.wait # << >>)
            => ENABLED TakeJob(i))

\* an instance that skipped its bootstrap is handling the item another
\* instance enqueued and has deleted the events of an order under it
C16_Witness ==
  \E i \in Instances :
    /\ boot[i] = "skipped"
    /\ \E k \in Instances \ {i} : boot[k] = "bootstrapped"
    /\ job[i].pc = "addToQueue"
    /\ job[i].jobId \in BootstrapItems
    /\ orderEvents = {}

(***************************************************************************)
(* What getMinNonce is expected to return.                                 *)
(***************************************************************************)
\* the min_nonce values stored for the pair of the last call
OwnNonces ==
  { r.min_nonce : r \in { x \in bulk_cancel_events :
                            x.order_kind = nonceCall.orderKind
                            /\ x.maker = nonceCall.maker } }

\* the raw stored maximum nonce of the pair of the last call
RawMax == CHOOSE k \in OwnNonces : \A n \in OwnNonces : n <= k

\* the last call was made on chain 4 for wyvern-v2.3
QuirkCall == chainId = 4 /\ nonceCall.orderKind = "wyvern-v2.3"

\* C17: nonce quirk isolation: for a pair whose raw stored maximum nonce is
\* k, getMinNonce returns k + 1 when the chain id is 4 and the order kind is
\* wyvern-v2.3, and k for every other chain and order kind.
C17_NonceQuirkIsolation ==
  (nonceCall # NoCall /\ OwnNonces # {}) =>
     /\ QuirkCall => nonceCall.nonce = RawMax + 1
     /\ ~QuirkCall => nonceCall.nonce = RawMax

\* a wyvern-v2.3 call on chain 4 returned one more than the stored maximum,
\* with several events stored for the pair
C17_Witness ==
  /\ QuirkCall
  /\ Cardinality(OwnNonces) >= 2
  /\ nonceCall.nonce = RawMax + 1

IsPrefixOf(s, t) ==
  /\ Len(s) <= Len(t)
  /\ SubSeq(t, 1, Len(s)) = s

\* the bulk-cancel event syncCallback is about to handle: its update
\* statement and the enqueue of the reconciliation items of the orders hit
BulkCancelDue ==
  /\ sync.pc = "bulkCancel"
  /\ sync.k <= Len(sync.parsed.bulkCancelEvents)

C20_ParserLeavesOrders ==
  [][sync' # sync =>
       /\ orders' = orders
       /\ acceptOrders' = acceptOrders
       /\ cancelLedger \subseteq cancelLedger'
       /\ fillLedger \subseteq fillLedger'
       /\ IsPrefixOf(hashQueue, hashQueue')
       /\ IsPrefixOf(fillQueue, fillQueue')]_vars

\* a live, accepted batch has run the bulk-cancel update statement against
\* orders the statement selects, and the order rows are as they were
C20_Witness ==
  /\ sync.pc = "failed"
  /\ sync.cause = "statement"
  /\ ~sync.backfill
  /\ sync.k <= Len(sync.parsed.bulkCancelEvents)
  /\ BulkCancelSelected(orders, sync.parsed.bulkCancelEvents[sync.k].maker,
                        sync.parsed.bulkCancelEvents[sync.k].newNonce) # {}
  /\ orders = snapshot.orders

(***************************************************************************)
(* What the fill ledger is expected to do to the quantity filled.          *)
(***************************************************************************)
\* the fill events of an order stored for a block
FillsOfIn(orderId, blockHash) ==
  { e \in fillLedger : /\ e.buyHash = orderId \/ e.sellHash = orderId
                       /\ e.baseParams.blockHash = blockHash }

\* C21 as stated: over fill appends and reorg removals alike, the quantity
\* filled of an order never decreases.
C21_QuantityFilledMonotone ==
  [][\A h \in OrderHashes : getQuantityFilled(h)' >= getQuantityFilled(h)]_vars

\* C21, amended: the quantity filled of an order never decreases over the
\* steps of syncCallback and of the workers; the removal of a block by
\* fixCallback lowers it by exactly the fills of that block.
C21_QuantityFilledMonotoneButReorg ==
  [][\A h \in OrderHashes :
       IF fix.pc = "removeFillEvents" /\ fix' # fix
       THEN getQuantityFilled(h)' =
              getQuantityFilled(h) - Cardinality(FillsOfIn(h, fix.blockHash))
       ELSE getQuantityFilled(h)' >= getQuantityFilled(h)]_vars

\* fixCallback is about to remove a block that filled an order, while the
\* fills of that order are in the ledger
C21_Witness ==
  /\ fix.pc = "removeFillEvents"
  /\ \E h \in OrderHashes :
       /\ FillsOfIn(h, fix.blockHash) # {}
       /\ getQuantityFilled(h) >= 1

(***************************************************************************)
(* What re-delivery and a changing table are expected to leave of the      *)
(* sweep.                                                                  *)
(***************************************************************************)
\* the sweep jobs that are waiting, delayed or active
Outstanding ==
  Range(sweepQueue.wait) \cup sweepQueue.delayed \cup sweepQueue.active

\* the sweep jobs ever enqueued that carry the cursor of job jobId
SameCursor(jobId) ==
  { j \in DOMAIN sweepQueue.jobs :
      sweepQueue.jobs[j].data.cursor = sweepQueue.jobs[jobId].data.cursor }

\* C22: the sweep handler is idempotent under re-delivery: an item delivered
\* again, after a failed delivery or after one that ran to its end, leaves
\* what one successful delivery leaves: its successor is enqueued once, so no
\* two sweep items carry the same cursor, and when the sweep is over, no item
\* having run out of attempts, the order_events rows left are those of the
\* orders that are not buy orders.
C22_RedeliveryIdempotent ==
  /\ \A jobId \in DOMAIN sweepQueue.jobs : SameCursor(jobId) = {jobId}
  /\ (SweepDone /\ sweepQueue.failed = << >>) =>
       orderEvents = IdsOf(orderRows \ BuyRows)

\* C27: single sweep chain: at most one sweep item is waiting, delayed or
\* active at any time, whether handlers fail and are retried or an item is
\* delivered twice.
C27_SingleSweepChain ==
  Cardinality(Outstanding) <= 1

\* C23: a worker never runs more handler invocations of its queue at a time
\* than its concurrency: at most 1 job of remove-buy-order-events and at most
\* 3 jobs of resync-attribute-cache are active.
C23_ConcurrencyBound ==
  /\ SweepOptions.concurrency = 1
  /\ ResyncOptions.concurrency = 3
  /\ Cardinality(sweepQueue.active) <= 1
  /\ Cardinality({ i \in Instances : boot[i] # "down" /\ job[i].pc # "idle" }) <= 1
  /\ Cardinality(resyncQ.active) <= 3

\* the resync worker runs three handlers while a fourth job waits
C23_Witness ==
  /\ Cardinality(resyncQ.active) = 3
  /\ resyncQ.wait # << >>

(***************************************************************************)
(* What getNftApproval is expected to return.                              *)
(***************************************************************************)
\* the approval events recorded for the triple of the last call
OwnApprovals ==
  { r \in nft_approval_events :
      << r.address, r.owner, r.operator >> = approvalCall.triple }

\* r occurred after q
OccurredAfter(r, q) ==
  \/ r.block > q.block
  \/ r.block = q.block /\ r.logIndex > q.logIndex

\* C24: getNftApproval returns the approved flag of the approval event of
\* exactly that contract, owner and operator that occurred last, also when
\* several lie in one block, and false when none is recorded.
C24_LatestApproval ==
  approvalCall # NoApprovalCall =>
    IF OwnApprovals = {}
    THEN approvalCall.result = FALSE
    ELSE \E r \in OwnApprovals :
           /\ \A q \in OwnApprovals \ {r} : OccurredAfter(r, q)
           /\ approvalCall.result = r.approved

(***************************************************************************)
(* What a bulk-cancel event is expected to leave alone.                    *)
(***************************************************************************)
\* the orders a bulk-cancel event (maker, newNonce) is not about
OutsideBulkCancel(ev) ==
  { h \in OrderHashes :
      \/ OrderRow(h).nonce >= ev.newNonce
      \/ OrderRow(h).maker # ev.maker
      \/ OrderRow(h).kind # "wyvern-v2.3"
      \/ orders[h] \notin {"valid", "no-balance"} }

\* C25: bulk-cancel frame: the step of syncCallback that handles a bulk-cancel
\* event (maker, newNonce) leaves every order of nonce at least newNonce, of
\* another maker, of another kind or of a status other than valid and
\* no-balance as it is, and enqueues no reconciliation item for it.
C25_BulkCancelFrame ==
  [][(BulkCancelDue /\ sync' # sync) =>
       \A h \in OutsideBulkCancel(sync.parsed.bulkCancelEvents[sync.k]) :
         /\ orders'[h] = orders[h]
         /\ \A n \in Len(hashQueue) + 1 .. Len(hashQueue') :
              hashQueue'[n].hash # h]_vars

\* a bulk-cancel event of m1 with new nonce 1 has been handled while h1, of
\* m1 and nonce 0, was filled; h2 has nonce 1, h3 another maker, h4 another
\* kind
C25_Witness ==
  /\ sync.pc = "failed"
  /\ sync.cause = "statement"
  /\ sync.k <= Len(sync.parsed.bulkCancelEvents)
  /\ sync.parsed.bulkCancelEvents[sync.k].maker = "m1"
  /\ sync.parsed.bulkCancelEvents[sync.k].newNonce = 1
  /\ orders["h1"] = "filled"
  /\ orders["h2"] = "valid"

\* the orders whose events the sweep has deleted
Visited == { processed[n].id : n \in DOMAIN processed }

\* the ids of the orders of one side that there are or were at the start
IdsOfSide(side) ==
  { r.id : r \in { x \in orderRows \cup atStart : x.side = side } }

\* C26 as stated: once the sweep has terminated, every buy order that existed
\* when it started has been visited and has no row left in order_events, and
\* no row of a sell order was deleted, whatever was inserted or deleted
\* meanwhile.
C26_SweepComplete ==
  /\ SweepDone =>
       \A r \in atStart :
         r.side = "buy" => (r.id \in Visited /\ r.id \notin orderEvents)
  /\ IdsOfSide("sell") \subseteq orderEvents

\* C26, amended: the same of every buy order that existed when the sweep
\* started and was not deleted before the sweep reached it; an order deleted
\* earlier is skipped and keeps its rows in order_events.
C26_SweepCompleteOfExisting ==
  /\ SweepDone =>
       \A r \in atStart :
         (r.side = "buy" /\ (r \in orderRows \/ r.id \in Visited)) =>
           (r.id \in Visited /\ r.id \notin orderEvents)
  /\ IdsOfSide("sell") \subseteq orderEvents

\* the sweep is over a table that had a buy order at its start, which is
\* still there, and that was changed twice meanwhile, an inserted order
\* remaining
C26_Witness ==
  /\ SweepDone
  /\ \E r \in atStart \cap orderRows : r.side = "buy"
  /\ IdsOf(orderRows) \ IdsOf(atStart) # {}
  /\ changes = 2

(***************************************************************************)
(* What the bootstrap is expected to reach.                                *)
(***************************************************************************)
\* C28: bootstrap liveness: once an instance holds the lock and no instance
\* is still on its way from the acquire to the enqueue, the cursor-less item
\* has been enqueued: the lock is never held with no item ever enqueued and
\* nothing reported (the code reports nothing on this path).
C28_BootstrapLiveness ==
  (lockHeld /\ BootSettled) => sweepAdded >= 1

(***************************************************************************)
(* What one log is expected to contribute.                                 *)
(***************************************************************************)
\* how many events of a sequence carry the base parameters of a log
CountOfBase(seq, base) ==
  Cardinality({ n \in 1 .. Len(seq) : seq[n].baseParams = base })

\* how many items of a sequence carry the context of a log
CountOfContext(seq, context) ==
  Cardinality({ n \in 1 .. Len(seq) : seq[n].context = context })

\* what a log has contributed to the batch result: its cancel events, fill
\* events, reconciliation items, fill-accounting items and bulk-cancel events
Contribution(parsed, log) ==
  << CountOfBase(parsed.cancelEvents, parseEvent(log)),
     CountOfBase(parsed.fillEvents, parseEvent(log)),
     CountOfContext(parsed.hashInfos, ContextOf(log)),
     CountOfContext(parsed.fillInfos, ContextOf(log)),
     CountOfContext(parsed.bulkCancelEvents, ContextOf(log)) >>

\* the whole contribution of a log of a topic
WholeContribution(topic) ==
  CASE topic = "OrderCancelled" -> << 1, 0, 1, 0, 0 >>
    [] topic = "OrdersMatched" -> << 0, 1, 2, 1, 0 >>
    [] topic = "NonceIncremented" -> << 0, 0, 0, 0, 1 >>
    [] OTHER -> << 0, 0, 0, 0, 0 >>

\* C29: per-log atomicity: every log of the batch has contributed all of the
\* items derived from it or none of them, and a log that fails to decode has
\* contributed none.
C29_PerLogAtomicity ==
  \A i \in 1 .. Len(sync.logs) :
    LET log == sync.logs[i]
    IN  /\ Contribution(sync.parsed, log) \in
             { WholeContribution(log.topic), << 0, 0, 0, 0, 0 >> }
        /\ Throws(log) => Contribution(sync.parsed, log) = << 0, 0, 0, 0, 0 >>

\* a batch was parsed in which a cancel and a fill were decoded and a log
\* between them failed to decode
C29_Witness ==
  /\ sync.pc # "idle"
  /\ sync.parsed.logged >= 1
  /\ sync.parsed.cancelEvents # << >>
  /\ sync.parsed.fillEvents # << >>

(***************************************************************************)
(* What is expected to be in the ledger when a work item is enqueued.      *)
(***************************************************************************)
\* the elements a step has added at the end of a queue
Added(queue, queueNext) ==
  { queueNext[n] : n \in Len(queue) + 1 .. Len(queueNext) }

\* the ledger holds the cancel or fill event of a reconciliation item
HashItemInLedger(item, cancels, fills) ==
  \/ \E e \in cancels :
       e.orderHash = item.hash /\ Context(e.baseParams) = item.context
  \/ \E e \in fills :
       /\ item.hash \in {e.buyHash, e.sellHash}
       /\ Context(e.baseParams) = item.context

\* the ledger holds the fill event of a fill-accounting item
FillItemInLedger(item, fills) ==
  \E e \in fills :
    /\ e.buyHash = item.buyHash
    /\ e.sellHash = item.sellHash
    /\ Context(e.baseParams) = item.context

\* C30: append before enqueue: a step of syncCallback that enqueues a
\* reconciliation or fill-accounting item of a cancel or fill event finds that
\* event in the ledger, and a call whose ledger append failed has enqueued
\* nothing.
C30_AppendBeforeEnqueue ==
  /\ [][sync' # sync =>
          /\ \A item \in Added(hashQueue, hashQueue') :
               HashItemInLedger(item, cancelLedger, fillLedger)
          /\ \A item \in Added(fillQueue, fillQueue') :
               FillItemInLedger(item, fillLedger)]_vars
  /\ [](sync.cause = "append" =>
          sync.hashSent = << >> /\ sync.fillSent = << >> /\ sync.bulkSent = << >>)

\* the call has enqueued the items of a cancel and of a fill after appending
\* both events
C30_Witness ==
  /\ sync.pc = "bulkCancel"
  /\ \E item \in Range(sync.hashSent) : \E e \in cancelLedger :
       e.orderHash = item.hash
  /\ \E item \in Range(sync.fillSent) : FillItemInLedger(item, fillLedger)

(***************************************************************************)
(* What a further add of a processed token is expected to do.              *)
(***************************************************************************)
\* the item of a token is pending: delayed, waiting or being handled
Pending(q, token) ==
  token \in q.delayed \cup Range(q.wait) \cup q.active

\* the item of a token has been processed: it completed, or it exhausted its
\* attempts and is in the failed set
Processed(q, token) ==
  /\ ~Pending(q, token)
  /\ \/ token \in Range(q.failed)
     \/ token \notin DOMAIN q.jobs

\* C31: dedupe key release: once the resync item of a token has been
\* processed, completed or moved to the failed set, an addToQueue of the same
\* contract and tokenId creates a new pending item.
C31_DedupeKeyRelease ==
  \A contract \in ResyncContracts : \A tokenId \in 1 .. MaxToken :
    LET token == Token(contract, tokenId)
        data == [contract |-> contract, tokenId |-> tokenId]
    IN  Processed(resyncQ, token) =>
          \A delay \in ResyncDelays :
            Pending(QueueAdd(resyncQ, token, data, delay), token)

(***************************************************************************)
(* What a walk through the pages of getTransfersV2 is expected to return.  *)
(***************************************************************************)
\* the transfers of the table that pass the filter of the walk
MatchingTransfers ==
  { r \in nft_transfer_events : r.address = walk.contract }

\* the walk has ended: its last response had no continuation
WalkEnded == walk # NoWalk /\ walk.continuation = Null

\* C32: transfers pagination: a walk that followed the continuation page
\* after page to its end has returned every matching transfer exactly once,
\* also when transfers share a block, and no transfer twice on the way; a
\* response without a continuation is the last page, and one with a
\* continuation is a full page.
C32_TransfersPagination ==
  /\ walk # NoWalk =>
       \A n1, n2 \in 1 .. Len(walk.transfers) :
         n1 # n2 => walk.transfers[n1] # walk.transfers[n2]
  /\ WalkEnded => Range(walk.transfers) = MatchingTransfers
  /\ \A n \in 1 .. Len(walk.pages) :
       /\ walk.pages[n].continuation = Null => n = Len(walk.pages)
       /\ walk.pages[n].continuation # Null =>
            Len(walk.pages[n].transfers) = walk.queryLimit
====
